---------------------------- MODULE Spec2Model ----------------------------
(***************************************************************************)
(* rlox: a single-pass expression compiler and a stack-based bytecode VM.  *)
(* The model follows the source: the scanner pulls one token at a time     *)
(* from a byte buffer, the Pratt parser emits bytecode into a chunk while  *)
(* it parses, and the VM fetches, decodes and executes the chunk.          *)
(*                                                                         *)
(* The build modelled is the debug build (debug_assertions on): the       *)
(* compiler prints the disassembly of the chunk and run prints, before     *)
(* each fetch, the stack and the instruction at ip.                        *)
(*                                                                         *)
(* A source is a sequence of one-character strings (its bytes).  Offsets   *)
(* are 0-based as in the Rust code; the byte at offset i is src[i + 1].    *)
(***************************************************************************)
EXTENDS Integers, Sequences, FiniteSets, TLC

(***************************************************************************)
(* Bounds of the model.                                                    *)
(***************************************************************************)
\* Every source of at most MaxLen bytes over Alphabet is an input.
MaxLen == 3
\* interpret is called at most MaxCalls times on one VM.
MaxCalls == 2
\* Literal counts from 256 to 256 + PoolSlack are inputs.
PoolSlack == 2
\* Every source of at most MaxScanLen bytes over ScanAlphabet is scanned.
MaxScanLen == 4
\* the longest code of a chunk driven on its own
MaxCode == 3
\* the largest constant pool of a chunk driven on its own
MaxPool == 3

(***************************************************************************)
(* Value (value.rs): an f64.  A finite value is sign * m * 2^e, with m a   *)
(* natural number of at most 53 bits that is odd (zero is m = 0, e = 0,    *)
(* and is signed, as in IEEE-754) and e in -1074..1023; the other values   *)
(* are the two infinities and NaN.  m is kept as a sequence of limbs, the  *)
(* least significant first, without leading zero limbs.  Every operation   *)
(* rounds its exact result to the nearest f64, ties to even.               *)
(***************************************************************************)
\* the bits of a limb
LimbBits == 15

Base == 2 ^ LimbBits

\* f64::MANTISSA_DIGITS
MANTISSA_DIGITS == 53

\* the exponent of the least subnormal, 2^-1074
MIN_EXP_SUBNORMAL == 0 - 1074

\* f64::MAX_EXP: every finite value is below 2^1024
MAX_EXP == 1024

Max(x, y) == IF x >= y THEN x ELSE y

Min(x, y) == IF x <= y THEN x ELSE y

\* F of the value of v, the value taken once
With(v, F(_)) == CHOOSE y \in {F(x) : x \in {v}} : TRUE

limb(a, i) == IF i >= 1 /\ i <= Len(a) THEN a[i] ELSE 0

\* a without its leading zero limbs
RECURSIVE big_trim(_)
big_trim(a) ==
    With(a, LAMBDA x :
        IF x = <<>> THEN x
        ELSE IF x[Len(x)] = 0 THEN big_trim(SubSeq(x, 1, Len(x) - 1))
        ELSE x)

\* the limbs of a natural number
RECURSIVE big_of(_)
big_of(n) == IF n = 0 THEN <<>> ELSE <<n % Base>> \o big_of(n \div Base)

big_bitlen(a) ==
    With(a, LAMBDA x :
        IF x = <<>> THEN 0
        ELSE LimbBits * (Len(x) - 1)
             + (CHOOSE k \in 1..LimbBits :
                    2 ^ (k - 1) <= x[Len(x)] /\ x[Len(x)] < 2 ^ k))

\* -1, 0 or 1 as a is below, equal to or above b
big_cmp(a, b) ==
    With(a, LAMBDA x : With(b, LAMBDA y :
        IF Len(x) # Len(y) THEN (IF Len(x) < Len(y) THEN 0 - 1 ELSE 1)
        ELSE LET diff == {i \in 1..Len(x) : x[i] # y[i]}
             IN  IF diff = {} THEN 0
                 ELSE With(CHOOSE k \in diff : \A j \in diff : j <= k,
                           LAMBDA i : IF x[i] < y[i] THEN 0 - 1 ELSE 1)))

\* the limbs of a + b + carry from the i-th on
RECURSIVE big_add_from(_, _, _, _)
big_add_from(a, b, i, carry) ==
    IF i > Len(a) /\ i > Len(b) THEN (IF carry = 0 THEN <<>> ELSE <<carry>>)
    ELSE With(limb(a, i) + limb(b, i) + carry,
              LAMBDA t : <<t % Base>> \o big_add_from(a, b, i + 1, t \div Base))

big_add(a, b) == With(a, LAMBDA x : With(b, LAMBDA y : big_add_from(x, y, 1, 0)))

\* the limbs of a - b - borrow from the i-th on
RECURSIVE big_sub_from(_, _, _, _)
big_sub_from(a, b, i, borrow) ==
    IF i > Len(a) THEN <<>>
    ELSE With(a[i] - limb(b, i) - borrow,
              LAMBDA t : IF t < 0 THEN <<t + Base>> \o big_sub_from(a, b, i + 1, 1)
                         ELSE <<t>> \o big_sub_from(a, b, i + 1, 0))

\* a - b where a >= b
big_sub(a, b) ==
    With(a, LAMBDA x : With(b, LAMBDA y : big_trim(big_sub_from(x, y, 1, 0))))

\* the limbs of a * k + carry from the i-th on
RECURSIVE big_mul_small_from(_, _, _, _)
big_mul_small_from(a, k, i, carry) ==
    IF i > Len(a) THEN (IF carry = 0 THEN <<>> ELSE <<carry>>)
    ELSE With(a[i] * k + carry,
              LAMBDA t : <<t % Base>> \o big_mul_small_from(a, k, i + 1, t \div Base))

\* a * k + carry for k and carry below Base
big_mul_small(a, k, carry) ==
    IF k = 0 THEN big_of(carry)
    ELSE With(a, LAMBDA x : big_mul_small_from(x, k, 1, carry))

\* a * Base^n
big_shl_limbs(a, n) ==
    With(a, LAMBDA x : IF x = <<>> THEN <<>> ELSE [i \in 1..n |-> 0] \o x)

\* a times the number the limbs of b from the i-th on spell
RECURSIVE big_mul_from(_, _, _)
big_mul_from(a, b, i) ==
    IF i > Len(b) THEN <<>>
    ELSE big_add(big_mul_small(a, b[i], 0),
                 big_shl_limbs(big_mul_from(a, b, i + 1), 1))

big_mul(a, b) == With(a, LAMBDA x : With(b, LAMBDA y : big_mul_from(x, y, 1)))

\* a * 2^n
big_shl(a, n) == big_shl_limbs(big_mul_small(a, 2 ^ (n % LimbBits), 0), n \div LimbBits)

\* a div 2^n
big_shr(a, n) ==
    With(a, LAMBDA x :
        LET k == n \div LimbBits
            r == n % LimbBits
            b == IF k >= Len(x) THEN <<>> ELSE SubSeq(x, k + 1, Len(x))
        IN  IF r = 0 THEN b
            ELSE big_trim([i \in 1..Len(b) |->
                              (b[i] \div 2 ^ r)
                              + (limb(b, i + 1) % 2 ^ r) * 2 ^ (LimbBits - r)]))

\* bit i of a, bit 0 the least significant
big_bit(a, i) == (limb(a, i \div LimbBits + 1) \div 2 ^ (i % LimbBits)) % 2

\* a mod 2^n is not zero
big_low_nonzero(a, n) ==
    With(a, LAMBDA x :
        \/ \E i \in 1..Min(n \div LimbBits, Len(x)) : x[i] # 0
        \/ limb(x, n \div LimbBits + 1) % 2 ^ (n % LimbBits) # 0)

\* the number of zero bits below the lowest one bit of a, a not zero
big_trailing_zeros(a) ==
    With(a, LAMBDA x :
        With(CHOOSE k \in 1..Len(x) : x[k] # 0 /\ \A j \in 1..(k - 1) : x[j] = 0,
             LAMBDA i :
                LimbBits * (i - 1)
                + (CHOOSE k \in 0..(LimbBits - 1) :
                       x[i] % 2 ^ (k + 1) # 0 /\ x[i] % 2 ^ k = 0)))

\* the largest k in lo..(hi - 1) with d * k <= r, where d * lo <= r < d * hi
RECURSIVE big_digit(_, _, _, _)
big_digit(r, d, lo, hi) ==
    IF hi - lo <= 1 THEN lo
    ELSE With((lo + hi) \div 2,
              LAMBDA mid : IF big_cmp(big_mul_small(d, mid, 0), r) <= 0
                           THEN big_digit(r, d, mid, hi)
                           ELSE big_digit(r, d, lo, mid))

\* one step of the long division by d: the quotient and the remainder of the
\* limbs above are given, and the next limb is brought down
big_divmod_step(above, next, d) ==
    With(big_trim(<<next>> \o above.r), LAMBDA r :
        With(big_digit(r, d, 0, Base), LAMBDA k :
            [q |-> big_trim(<<k>> \o above.q),
             r |-> big_sub(r, big_mul_small(d, k, 0))]))

\* The long division by d, d not zero, of the number that the limbs of a from
\* the i-th up spell: its quotient and its remainder.
RECURSIVE big_divmod_from(_, _, _)
big_divmod_from(a, d, i) ==
    IF i > Len(a) THEN [q |-> <<>>, r |-> <<>>]
    ELSE With(big_divmod_from(a, d, i + 1),
              LAMBDA above : big_divmod_step(above, a[i], d))

\* quotient and remainder of a by d, d not zero
big_divmod(a, d) ==
    With(a, LAMBDA x : With(d, LAMBDA y : big_divmod_from(x, y, 1)))

Zero(neg) == [tag |-> "num", neg |-> neg, m |-> <<>>, e |-> 0]

Inf(neg) == [tag |-> "inf", neg |-> neg, m |-> <<>>, e |-> 0]

NaN == [tag |-> "nan", neg |-> FALSE, m |-> <<>>, e |-> 0]

IsZero(v) == v.tag = "num" /\ v.m = <<>>

\* the f64 of m * 2^e for m of at most 53 bits and e >= -1074: an infinity
\* from 2^1024 on
Pack(neg, m, e) ==
    With(m, LAMBDA x :
        IF x = <<>> THEN Zero(neg)
        ELSE IF big_bitlen(x) + e > MAX_EXP THEN Inf(neg)
        ELSE With(big_trailing_zeros(x), LAMBDA tz :
                 [tag |-> "num", neg |-> neg, m |-> big_shr(x, tz), e |-> e + tz]))

\* The f64 nearest to v * 2^e, ties to even, where v is m if sticky is false
\* and a number strictly between m and m + 1 if it is true (m then has more
\* than 53 bits).
Round(neg, m, e, sticky) ==
    With(m, LAMBDA x :
        With(Max(big_bitlen(x) - MANTISSA_DIGITS, MIN_EXP_SUBNORMAL - e),
             LAMBDA shift :
                IF x = <<>> THEN Zero(neg)
                ELSE IF shift <= 0 THEN Pack(neg, x, e)
                ELSE With(big_shr(x, shift), LAMBDA q :
                        LET half == big_bit(x, shift - 1) = 1
                            rest == sticky \/ big_low_nonzero(x, shift - 1)
                            up   == half /\ (rest \/ big_bit(q, 0) = 1)
                        IN  Pack(neg, IF up THEN big_add(q, <<1>>) ELSE q,
                                 e + shift))))

\* the f64 nearest to (n / d) * 2^e, n and d not zero: the quotient is taken
\* to 55 bits or more and the remainder is the sticky bit
DivRound(neg, n, d, e) ==
    With(n, LAMBDA x : With(d, LAMBDA y :
        With(Max(0, MANTISSA_DIGITS + 2 + big_bitlen(y) - big_bitlen(x)), LAMBDA s :
            With(big_divmod(big_shl(x, s), y), LAMBDA qr :
                Round(neg, qr.q, e - s, qr.r # <<>>)))))

\* the f64 nearest to n / d, for natural numbers n and d, d not zero
Fin(neg, n, d) ==
    IF n = 0 THEN Zero(neg)
    ELSE IF d = 1 THEN Round(neg, big_of(n), 0, FALSE)
    ELSE DivRound(neg, big_of(n), big_of(d), 0)

\* the exponent of the bit above the highest one bit of a finite value that
\* is not zero
top_exp(v) == v.e + big_bitlen(v.m)

\* The sum of two finite values where a is 2^56 times b or more in
\* magnitude: a is written with 56 bits, m * 2^e, and b is then less than one
\* unit of m, so that the sum is strictly between m and m + 1 units, or
\* between m - 1 and m when the signs differ.
add_far(a, b) ==
    With(MANTISSA_DIGITS + 3 - big_bitlen(a.m), LAMBDA k :
        With(big_shl(a.m, k), LAMBDA m :
            Round(a.neg, IF a.neg = b.neg THEN m ELSE big_sub(m, <<1>>),
                  a.e - k, TRUE)))

\* the sum of two finite values that are not zero: the exact sum, rounded
add_near(a, b) ==
    With(Min(a.e, b.e), LAMBDA e :
        With(big_shl(a.m, a.e - e), LAMBDA ma :
            With(big_shl(b.m, b.e - e), LAMBDA mb :
                With(big_cmp(ma, mb), LAMBDA c :
                    IF a.neg = b.neg THEN Round(a.neg, big_add(ma, mb), e, FALSE)
                    ELSE IF c = 0 THEN Zero(FALSE)
                    ELSE IF c > 0 THEN Round(a.neg, big_sub(ma, mb), e, FALSE)
                    ELSE Round(b.neg, big_sub(mb, ma), e, FALSE)))))

\* the sum of two finite values that are not zero
add_finite(a, b) ==
    IF top_exp(a) - top_exp(b) >= MANTISSA_DIGITS + 3 THEN add_far(a, b)
    ELSE IF top_exp(b) - top_exp(a) >= MANTISSA_DIGITS + 3 THEN add_far(b, a)
    ELSE add_near(a, b)

\* -v
f64_neg(v) == With(v, LAMBDA x : IF x.tag = "nan" THEN NaN ELSE [x EXCEPT !.neg = ~x.neg])

\* a + b
f64_add(x, y) ==
    With(x, LAMBDA a : With(y, LAMBDA b :
    IF a.tag = "nan" \/ b.tag = "nan" THEN NaN
    ELSE IF a.tag = "inf" /\ b.tag = "inf"
         THEN IF a.neg = b.neg THEN a ELSE NaN
    ELSE IF a.tag = "inf" THEN a
    ELSE IF b.tag = "inf" THEN b
    ELSE IF IsZero(a) /\ IsZero(b) THEN Zero(a.neg /\ b.neg)
    ELSE IF IsZero(a) THEN b
    ELSE IF IsZero(b) THEN a
    ELSE add_finite(a, b)))

\* a - b
f64_sub(a, b) == f64_add(a, f64_neg(b))

\* a * b
f64_mul(x, y) ==
    With(x, LAMBDA a : With(y, LAMBDA b :
    IF a.tag = "nan" \/ b.tag = "nan" THEN NaN
    ELSE IF (a.tag = "inf" /\ IsZero(b)) \/ (IsZero(a) /\ b.tag = "inf") THEN NaN
    ELSE IF a.tag = "inf" \/ b.tag = "inf" THEN Inf(a.neg # b.neg)
    ELSE IF IsZero(a) \/ IsZero(b) THEN Zero(a.neg # b.neg)
    ELSE Round(a.neg # b.neg, big_mul(a.m, b.m), a.e + b.e, FALSE)))

\* a / b: division by zero gives an infinity or NaN, never an error
f64_div(x, y) ==
    With(x, LAMBDA a : With(y, LAMBDA b :
    IF a.tag = "nan" \/ b.tag = "nan" THEN NaN
    ELSE IF a.tag = "inf" /\ b.tag = "inf" THEN NaN
    ELSE IF IsZero(a) /\ IsZero(b) THEN NaN
    ELSE IF a.tag = "inf" \/ IsZero(b) THEN Inf(a.neg # b.neg)
    ELSE IF b.tag = "inf" \/ IsZero(a) THEN Zero(a.neg # b.neg)
    ELSE DivRound(a.neg # b.neg, a.m, b.m, a.e - b.e)))

(***************************************************************************)
(* Token (token.rs).  kind is the TokenKind variant's name; text is the    *)
(* payload of Number, Identifier and String (the lexeme's bytes) and of    *)
(* Error (the message); line is the scanner's line when the token is made. *)
(***************************************************************************)
Token(kind, text, line) == [kind |-> kind, text |-> text, line |-> line]

\* Token::lexeme: how a token renders in a diagnostic
lexeme(token) ==
    CASE token.kind = "LeftParen" -> <<"(">>
      [] token.kind = "RightParen" -> <<")">>
      [] token.kind = "LeftBrace" -> <<"{">>
      [] token.kind = "RightBrace" -> <<"}">>
      [] token.kind = "Comma" -> <<",">>
      [] token.kind = "Dot" -> <<".">>
      [] token.kind = "Minus" -> <<"-">>
      [] token.kind = "Plus" -> <<"+">>
      [] token.kind = "Semicolon" -> <<";">>
      [] token.kind = "Slash" -> <<"/">>
      [] token.kind = "Star" -> <<"*">>
      [] token.kind = "Bang" -> <<"!">>
      [] token.kind = "BangEqual" -> <<"!", "=">>
      [] token.kind = "Equal" -> <<"=">>
      [] token.kind = "EqualEqual" -> <<"=", "=">>
      [] token.kind = "Greater" -> <<">">>
      [] token.kind = "GreaterEqual" -> <<">", "=">>
      [] token.kind = "Less" -> <<"<">>
      [] token.kind = "LessEqual" -> <<"<", "=">>
      [] token.kind = "And" -> <<"a", "n", "d">>
      [] token.kind = "Class" -> <<"c", "l", "a", "s", "s">>
      [] token.kind = "Else" -> <<"e", "l", "s", "e">>
      [] token.kind = "False" -> <<"f", "a", "l", "s", "e">>
      [] token.kind = "For" -> <<"f", "o", "r">>
      [] token.kind = "Fun" -> <<"f", "u", "n">>
      [] token.kind = "If" -> <<"i", "f">>
      [] token.kind = "Nil" -> <<"n", "i", "l">>
      [] token.kind = "Or" -> <<"o", "r">>
      [] token.kind = "Print" -> <<"p", "r", "i", "n", "t">>
      [] token.kind = "Return" -> <<"r", "e", "t", "u", "r", "n">>
      [] token.kind = "Super" -> <<"s", "u", "p", "e", "r">>
      [] token.kind = "This" -> <<"t", "h", "i", "s">>
      [] token.kind = "True" -> <<"t", "r", "u", "e">>
      [] token.kind = "Var" -> <<"v", "a", "r">>
      [] token.kind = "While" -> <<"w", "h", "i", "l", "e">>
      [] token.kind = "Eof" -> <<" ">>
      [] OTHER -> token.text

(***************************************************************************)
(* Scanner (scanner.rs).  The scanner's state is [source, start, current,  *)
(* line]; every operator below takes the fields it reads and returns the   *)
(* fields it writes.                                                       *)
(***************************************************************************)
\* Option::None of peek and peek_next
NoByte == ""

DigitBytes == <<"0", "1", "2", "3", "4", "5", "6", "7", "8", "9">>

LowerBytes == {"a", "b", "c", "d", "e", "f", "g", "h", "i", "j", "k", "l", "m",
               "n", "o", "p", "q", "r", "s", "t", "u", "v", "w", "x", "y", "z"}

UpperBytes == {"A", "B", "C", "D", "E", "F", "G", "H", "I", "J", "K", "L", "M",
               "N", "O", "P", "Q", "R", "S", "T", "U", "V", "W", "X", "Y", "Z"}

is_ascii_digit(c) == \E i \in 1..10 : DigitBytes[i] = c

is_alpha(c) == c \in LowerBytes \/ c \in UpperBytes \/ c = "_"

is_ascii_alphanumeric(c) == c \in LowerBytes \/ c \in UpperBytes \/ is_ascii_digit(c)

is_at_end(source, current) == current >= Len(source)

peek(source, current) ==
    IF current < Len(source) THEN source[current + 1] ELSE NoByte

peek_next(source, current) ==
    IF current + 1 < Len(source) THEN source[current + 2] ELSE NoByte

match_byte(source, current, expected) ==
    ~is_at_end(source, current) /\ source[current + 1] = expected

\* the inner loop of skip_whitespace: to the newline or the end of input
RECURSIVE skip_comment(_, _)
skip_comment(source, current) ==
    IF peek(source, current) = NoByte \/ peek(source, current) = "\n"
    THEN current
    ELSE skip_comment(source, current + 1)

RECURSIVE skip_whitespace(_, _, _)
skip_whitespace(source, current, line) ==
    LET c == peek(source, current)
    IN  IF c \in {" ", "\r", "\t"} THEN skip_whitespace(source, current + 1, line)
        ELSE IF c = "\n" THEN skip_whitespace(source, current + 1, line + 1)
        ELSE IF c = "/" /\ peek_next(source, current) = "/"
             THEN skip_whitespace(source, skip_comment(source, current), line)
        ELSE [current |-> current, line |-> line]

\* a maximal run of digits
RECURSIVE digits(_, _)
digits(source, current) ==
    IF is_ascii_digit(peek(source, current))
    THEN digits(source, current + 1)
    ELSE current

\* what scan_token returns and leaves in the scanner
Scanned(kind, text, line, start, current) ==
    [token |-> Token(kind, text, line), start |-> start, current |-> current,
     line |-> line]

slice(source, start, current) == SubSeq(source, start + 1, current)

\* error_token leaving the offending byte unconsumed
error_token_rewind(message, line, start, current) ==
    Scanned("Error", <<message>>, line, start, start)

\* error_token consuming the byte after the offending one as well
error_token_greedy(message, line, start, current) ==
    Scanned("Error", <<message>>, line, start, current + 1)

error_token(message, line, start, current) ==
    Scanned("Error", <<message>>, line, start, current)

\* number consuming a '.' after the digits whatever follows it
number_any_dot(source, start, current, line) ==
    LET int_end == digits(source, current)
        frac    == peek(source, int_end) = "."
        end     == IF frac THEN digits(source, int_end + 1) ELSE int_end
    IN  Scanned("Number", slice(source, start, end), line, start, end)

number(source, start, current, line) ==
    LET int_end == digits(source, current)
        frac    == peek(source, int_end) = "."
                   /\ is_ascii_digit(peek_next(source, int_end))
        end     == IF frac THEN digits(source, int_end + 1) ELSE int_end
    IN  Scanned("Number", slice(source, start, end), line, start, end)

\* the loop of string leaving the line counter alone
RECURSIVE string_body_flat(_, _, _)
string_body_flat(source, current, line) ==
    LET c == peek(source, current)
    IN  IF c = NoByte \/ c = "\"" THEN [current |-> current, line |-> line]
        ELSE string_body_flat(source, current + 1, line)

\* the loop of string: to the closing quote or the end of input
RECURSIVE string_body(_, _, _)
string_body(source, current, line) ==
    LET c == peek(source, current)
    IN  IF c = NoByte \/ c = "\"" THEN [current |-> current, line |-> line]
        ELSE string_body(source, current + 1,
                         IF c = "\n" THEN line + 1 ELSE line)

string(source, start, current, line) ==
    LET b == string_body(source, current, line)
    IN  IF is_at_end(source, b.current)
        THEN error_token("Unterminated string.", b.line, start, b.current)
        ELSE Scanned("String", slice(source, start, b.current + 1), b.line,
                     start, b.current + 1)

identifier_type(lex) ==
    CASE lex = <<"a", "n", "d">> -> "And"
      [] lex = <<"c", "l", "a", "s", "s">> -> "Class"
      [] lex = <<"e", "l", "s", "e">> -> "Else"
      [] lex = <<"f", "a", "l", "s", "e">> -> "False"
      [] lex = <<"f", "o", "r">> -> "For"
      [] lex = <<"f", "u", "n">> -> "Fun"
      [] lex = <<"i", "f">> -> "If"
      [] lex = <<"n", "i", "l">> -> "Nil"
      [] lex = <<"o", "r">> -> "Or"
      [] lex = <<"p", "r", "i", "n", "t">> -> "Print"
      [] lex = <<"r", "e", "t", "u", "r", "n">> -> "Return"
      [] lex = <<"s", "u", "p", "e", "r">> -> "Super"
      [] lex = <<"t", "h", "i", "s">> -> "This"
      [] lex = <<"t", "r", "u", "e">> -> "True"
      [] lex = <<"v", "a", "r">> -> "Var"
      [] lex = <<"w", "h", "i", "l", "e">> -> "While"
      [] OTHER -> "Identifier"

\* the loop of identifier stopping at the first byte that is not a letter
RECURSIVE identifier_end_letters(_, _)
identifier_end_letters(source, current) ==
    LET b == peek(source, current)
    IN  IF b \in LowerBytes \/ b \in UpperBytes
        THEN identifier_end_letters(source, current + 1)
        ELSE current

\* a maximal run of alphanumeric or '_' bytes
RECURSIVE identifier_end(_, _)
identifier_end(source, current) ==
    LET b == peek(source, current)
    IN  IF is_ascii_alphanumeric(b) \/ b = "_"
        THEN identifier_end(source, current + 1)
        ELSE current

identifier(source, start, current, line) ==
    LET end  == identifier_end(source, current)
        lex  == slice(source, start, end)
        kind == identifier_type(lex)
    IN  Scanned(kind, IF kind = "Identifier" THEN lex ELSE <<>>, line, start, end)

\* the one/two-character operators: kind2 when the next byte is '='
one_or_two(source, start, current, line, kind1, kind2) ==
    IF match_byte(source, current, "=")
    THEN Scanned(kind2, <<>>, line, start, current + 1)
    ELSE Scanned(kind1, <<>>, line, start, current)

scan_token(source, current0, line0) ==
    LET ws      == skip_whitespace(source, current0, line0)
        start   == ws.current
        line    == ws.line
        c       == peek(source, start)
        current == start + 1
        simple(kind) == Scanned(kind, <<>>, line, start, current)
    IN  IF is_at_end(source, start) THEN Scanned("Eof", <<>>, line, start, start)
        ELSE IF is_alpha(c) THEN identifier(source, start, current, line)
        ELSE IF is_ascii_digit(c) THEN number(source, start, current, line)
        ELSE CASE c = "(" -> simple("LeftParen")
               [] c = ")" -> simple("RightParen")
               [] c = "{" -> simple("LeftBrace")
               [] c = "}" -> simple("RightBrace")
               [] c = ";" -> simple("Semicolon")
               [] c = "," -> simple("Comma")
               [] c = "." -> simple("Dot")
               [] c = "-" -> simple("Minus")
               [] c = "+" -> simple("Plus")
               [] c = "/" -> simple("Slash")
               [] c = "*" -> simple("Star")
               [] c = "!" -> one_or_two(source, start, current, line, "Bang", "BangEqual")
               [] c = "=" -> one_or_two(source, start, current, line, "Equal", "EqualEqual")
               [] c = "<" -> one_or_two(source, start, current, line, "Less", "LessEqual")
               [] c = ">" -> one_or_two(source, start, current, line, "Greater", "GreaterEqual")
               [] c = "\"" -> string(source, start, current, line)
               [] OTHER -> error_token("Unexpected character.", line, start, current)

\* Interner: map is the HashMap from a name to its index, kept as the set
\* of its entries [name, idx] (one entry per key); vec is the Vec of names.
NewInterner == [map |-> {}, vec |-> <<>>]

\* intern never looking the name up: a new index at every call
intern_always_push(interner, name) ==
    LET idx == Cardinality(interner.map)
    IN  [interner |-> [map |-> {e \in interner.map : e.name # name}
                                 \cup {[name |-> name, idx |-> idx]},
                       vec |-> Append(interner.vec, name)],
         idx |-> idx]

\* the interner after intern(name), and the index returned
intern(interner, name) ==
    IF \E e \in interner.map : e.name = name
    THEN [interner |-> interner,
          idx |-> (CHOOSE e \in interner.map : e.name = name).idx]
    ELSE LET idx == Cardinality(interner.map)
         IN  [interner |-> [map |-> interner.map \cup {[name |-> name, idx |-> idx]},
                            vec |-> Append(interner.vec, name)],
              idx |-> idx]

\* a vec index out of bounds is not modelled: lookup is applied to indices
\* that intern returned
lookup(interner, idx) == interner.vec[idx + 1]

\* Scanner::new
NewScanner(source) == [source |-> source, start |-> 0, current |-> 0, line |-> 1]

\* the scanner after scan_token
ScannerAfter(scanner, r) ==
    [scanner EXCEPT !.start = r.start, !.current = r.current, !.line = r.line]

\* The compiler's scanner returns Result<Token, ScanError>: a token the scanner
\* makes with error_token is the Err variant.
is_err(token) == token.kind = "Error"

(***************************************************************************)
(* OpCode (opcode.rs): the byte of each instruction, and the decode.       *)
(***************************************************************************)
Op_Constant == 0
Op_Add == 1
Op_Subtract == 2
Op_Multiply == 3
Op_Divide == 4
Op_Negate == 5
Op_Return == 6

\* the variants of OpCode
OpCodes == {"Constant", "Add", "Subtract", "Multiply", "Divide", "Negate", "Return"}

\* u8::from(op): op as u8
u8_from(op) ==
    CASE op = "Constant" -> Op_Constant
      [] op = "Add" -> Op_Add
      [] op = "Subtract" -> Op_Subtract
      [] op = "Multiply" -> Op_Multiply
      [] op = "Divide" -> Op_Divide
      [] op = "Negate" -> Op_Negate
      [] op = "Return" -> Op_Return

\* try_from decoding every unknown byte as Return
try_from_lenient(byte) ==
    CASE byte = Op_Constant -> "Constant"
      [] byte = Op_Add -> "Add"
      [] byte = Op_Subtract -> "Subtract"
      [] byte = Op_Multiply -> "Multiply"
      [] byte = Op_Divide -> "Divide"
      [] byte = Op_Negate -> "Negate"
      [] OTHER -> "Return"

\* OpCode::try_from(byte): the variant, or "Err" for Err(())
try_from(byte) ==
    CASE byte = Op_Constant -> "Constant"
      [] byte = Op_Add -> "Add"
      [] byte = Op_Subtract -> "Subtract"
      [] byte = Op_Multiply -> "Multiply"
      [] byte = Op_Divide -> "Divide"
      [] byte = Op_Negate -> "Negate"
      [] byte = Op_Return -> "Return"
      [] OTHER -> "Err"

\* OpCode::try_from(byte) is Ok
try_from_ok(byte) == try_from(byte) # "Err"

(***************************************************************************)
(* Chunk (chunk.rs): code is a sequence of (byte, line) pairs, constants   *)
(* the constant pool.                                                      *)
(***************************************************************************)
NewChunk == [code |-> <<>>, constants |-> <<>>]

\* write putting the pair in front of code
write_front(chunk, byte, line) ==
    [chunk EXCEPT !.code = <<[byte |-> byte, line |-> line]>> \o @]

write(chunk, byte, line) ==
    [chunk EXCEPT !.code = Append(@, [byte |-> byte, line |-> line])]

\* add_constant returning the index of an equal constant when the pool has one
add_constant_dedup(chunk, value) ==
    IF \E i \in 1..Len(chunk.constants) : chunk.constants[i] = value
    THEN [chunk |-> chunk,
          index |-> (CHOOSE i \in 1..Len(chunk.constants) : chunk.constants[i] = value) - 1]
    ELSE [chunk |-> [chunk EXCEPT !.constants = Append(@, value)],
          index |-> Len(chunk.constants)]

\* add_constant returning constants.len() after the push
add_constant_len(chunk, value) ==
    [chunk |-> [chunk EXCEPT !.constants = Append(@, value)],
     index |-> Len(chunk.constants) + 1]

\* the chunk after the push, and the index returned (constants.len() - 1)
add_constant(chunk, value) ==
    [chunk |-> [chunk EXCEPT !.constants = Append(@, value)],
     index |-> Len(chunk.constants)]

(***************************************************************************)
(* The disassembler (chunk.rs).  What it prints is kept as a listing: the  *)
(* header and one row per instruction, [offset, line, name, operand,       *)
(* constant]; line is -1 where "   | " is printed, operand is -1 and       *)
(* constant is empty where the instruction has none.  Every operator       *)
(* returns the next offset, the row, and whether an index was out of       *)
(* bounds (a panic).  A call that panics has printed the columns of its    *)
(* row that come before the index: the row keeps them, its name is empty   *)
(* and next is the offset of the call.                                     *)
(***************************************************************************)
NoListing == [header |-> <<>>, rows |-> <<>>, end |-> 0]

\* the line column of a row whose call panicked before it printed one
NotPrinted == 0 - 2

\* what an instruction has printed when an index it takes is out of bounds:
\* the println! evaluates its arguments before it prints
NothingPrinted == [name |-> "", operand |-> 0 - 1, constant |-> <<>>]

simple_instruction(name, offset) ==
    [next |-> offset + 1,
     row |-> [name |-> name, operand |-> 0 - 1, constant |-> <<>>],
     panic |-> FALSE]

constant_instruction(name, chunk, offset) ==
    IF offset + 1 >= Len(chunk.code)
    THEN [next |-> offset, row |-> NothingPrinted, panic |-> TRUE]
    ELSE LET constant == chunk.code[offset + 2].byte
         IN  IF constant >= Len(chunk.constants)
             THEN [next |-> offset, row |-> NothingPrinted, panic |-> TRUE]
             ELSE [next |-> offset + 2,
                   row |-> [name |-> name, operand |-> constant,
                            constant |-> <<chunk.constants[constant + 1]>>],
                   panic |-> FALSE]

disassemble_instruction(chunk, offset) ==
    IF offset >= Len(chunk.code)
    THEN [next |-> offset,
          row |-> [offset |-> offset, line |-> NotPrinted, name |-> "",
                   operand |-> 0 - 1, constant |-> <<>>],
          panic |-> TRUE]
    ELSE
    LET byte == chunk.code[offset + 1].byte
        line == chunk.code[offset + 1].line
        col  == IF offset > 0 /\ line = chunk.code[offset].line THEN 0 - 1 ELSE line
        op   == try_from(byte)
        r    == CASE op = "Constant" -> constant_instruction("OP_CONSTANT", chunk, offset)
                  [] op = "Add" -> simple_instruction("OP_ADD", offset)
                  [] op = "Subtract" -> simple_instruction("OP_SUBTRACT", offset)
                  [] op = "Multiply" -> simple_instruction("OP_MULTIPLY", offset)
                  [] op = "Divide" -> simple_instruction("OP_DIVIDE", offset)
                  [] op = "Negate" -> simple_instruction("OP_NEGATE", offset)
                  [] op = "Return" -> simple_instruction("OP_RETURN", offset)
                  [] OTHER -> [next |-> offset + 1,
                               row |-> [name |-> "Unknown opcode", operand |-> byte,
                                        constant |-> <<>>],
                               panic |-> FALSE]
    IN  [next |-> r.next,
         row |-> [offset |-> offset, line |-> col, name |-> r.row.name,
                  operand |-> r.row.operand, constant |-> r.row.constant],
         panic |-> r.panic]

\* disassemble_instruction of debug.rs, which repeats the method of Chunk
\* statement for statement
debug_disassemble_instruction(chunk, offset) == disassemble_instruction(chunk, offset)

\* The loop of disassemble: `while offset < code.len()` taken for at most n
\* iterations from offset on.  The iterations are evaluated by halves, the
\* second half starting at the offset the first half ended at.
RECURSIVE disassemble_from(_, _, _)
disassemble_from(chunk, offset, n) ==
    IF n = 0 \/ offset >= Len(chunk.code)
    THEN [rows |-> <<>>, end |-> offset, panic |-> FALSE]
    ELSE IF n = 1
         THEN LET d == disassemble_instruction(chunk, offset)
              IN  [rows |-> <<d.row>>, end |-> d.next, panic |-> d.panic]
    ELSE LET a == disassemble_from(chunk, offset, n \div 2)
         IN  IF a.panic THEN a
             ELSE LET b == disassemble_from(chunk, a.end, n - n \div 2)
                  IN  [rows |-> a.rows \o b.rows, end |-> b.end, panic |-> b.panic]

\* an instruction is at least one byte long, so the loop takes at most
\* code.len() iterations
disassemble(chunk, name) ==
    LET d == disassemble_from(chunk, 0, Len(chunk.code))
    IN  [listing |-> [header |-> <<name>>, rows |-> d.rows, end |-> d.end],
         panic |-> d.panic]

(***************************************************************************)
(* Prec (compiler.rs): the precedence ladder, lowest to highest.           *)
(***************************************************************************)
Prec_None == 0
Prec_Assignment == 1
Prec_Or == 2
Prec_And == 3
Prec_Equality == 4
Prec_Comparison == 5
Prec_Term == 6
Prec_Factor == 7
Prec_Unary == 8
Prec_Call == 9
Prec_Primary == 10

\* get_precedence with '*' and '/' on the level of '+' and '-'
get_precedence_flat(kind) ==
    IF kind \in {"Plus", "Minus", "Star", "Slash"} THEN Prec_Term ELSE Prec_None

\* get_precedence giving ')' the level of '+' and '-'
get_precedence_paren(kind) ==
    IF kind \in {"Plus", "Minus", "RightParen"} THEN Prec_Term
    ELSE IF kind \in {"Star", "Slash"} THEN Prec_Factor
    ELSE Prec_None

get_precedence(kind) ==
    IF kind \in {"Plus", "Minus"} THEN Prec_Term
    ELSE IF kind \in {"Star", "Slash"} THEN Prec_Factor
    ELSE Prec_None

\* next_prec returning the level it is given
next_prec_same(prec) == prec

next_prec(prec) == IF prec = Prec_Primary THEN Prec_Primary ELSE prec + 1

\* u8::MAX
U8_MAX == 255

(***************************************************************************)
(* str::parse::<f64> of a Number lexeme: digits, then optionally '.' and   *)
(* digits.                                                                 *)
(***************************************************************************)
\* 10^k
RECURSIVE pow10(_)
pow10(k) ==
    IF k = 0 THEN <<1>>
    ELSE With(pow10(k \div 2), LAMBDA p :
            IF k % 2 = 0 THEN big_mul(p, p) ELSE big_mul_small(big_mul(p, p), 10, 0))

\* the number the decimal digits of text spell: the digits are taken by
\* halves, the first half times ten to the length of the second, plus the
\* second
RECURSIVE digits_value(_)
digits_value(text) ==
    IF text = <<>> THEN <<>>
    ELSE IF Len(text) = 1
         THEN big_of((CHOOSE i \in 1..10 : DigitBytes[i] = text[1]) - 1)
    ELSE With(Len(text) \div 2, LAMBDA h :
            big_add(big_mul(digits_value(SubSeq(text, 1, h)), pow10(Len(text) - h)),
                    digits_value(SubSeq(text, h + 1, Len(text)))))

\* the f64 nearest to the decimal number text spells
parse_f64(text) ==
    LET dots == {i \in 1..Len(text) : text[i] = "."}
        frac == IF dots = {} THEN 0 ELSE Len(text) - (CHOOSE i \in dots : TRUE)
        n    == digits_value(SelectSeq(text, is_ascii_digit))
    IN  IF n = <<>> THEN Zero(FALSE)
        ELSE IF frac = 0 THEN Round(FALSE, n, 0, FALSE)
        ELSE DivRound(FALSE, n, pow10(frac), 0)

(***************************************************************************)
(* Parser and Compiler (compiler.rs).  The operators below thread a record *)
(* w = [scanner, parser, chunk, stderr, err, listing]: the compiler's      *)
(* fields, what it has printed to the error stream, the Err a `?` is       *)
(* propagating ("none" while every call so far returned Ok; "panic" for an *)
(* index out of bounds), and the disassembly it has printed.  The build    *)
(* modelled is the one with debug_assertions, in which end_compiler        *)
(* disassembles the chunk.                                                 *)
(***************************************************************************)
\* Parser::new: the first token is scanned, previous is a placeholder Eof
NewParser(first) ==
    [current |-> first, previous |-> Token("Eof", <<>>, 0),
     had_error |-> FALSE, panic_mode |-> FALSE]

\* advance putting the token it scans into previous as well
advance_eager(w) ==
    LET r == scan_token(w.scanner.source, w.scanner.current, w.scanner.line)
    IN  [w EXCEPT !.parser.previous = r.token,
                  !.parser.current = r.token,
                  !.scanner = ScannerAfter(w.scanner, r)]

advance(w) ==
    LET r == scan_token(w.scanner.source, w.scanner.current, w.scanner.line)
    IN  [w EXCEPT !.parser.previous = w.parser.current,
                  !.parser.current = r.token,
                  !.scanner = ScannerAfter(w.scanner, r)]

\* one line on the error stream
Diagnostic(token, message) ==
    IF is_err(token)
    THEN [at |-> "scanner error", line |-> 0, lexeme |-> token.text,
          message |-> message]
    ELSE [at |-> "line", line |-> token.line, lexeme |-> lexeme(token),
          message |-> message]

\* error_at reporting whether the parser is in panic mode or not
error_at_always(w, token, message) ==
    [w EXCEPT !.parser.panic_mode = TRUE,
              !.stderr = Append(@, Diagnostic(token, message)),
              !.parser.had_error = TRUE]

error_at(w, token, message) ==
    IF w.parser.panic_mode THEN w
    ELSE [w EXCEPT !.parser.panic_mode = TRUE,
                   !.stderr = Append(@, Diagnostic(token, message)),
                   !.parser.had_error = TRUE]

error(w, message) == error_at(w, w.parser.previous, message)

error_at_current(w, message) == error_at(w, w.parser.current, message)

\* consume letting a token of another kind pass unreported
consume_silent(w, kind, message) ==
    IF ~is_err(w.parser.current) /\ w.parser.current.kind = kind
    THEN advance(w)
    ELSE w

consume(w, kind, message) ==
    IF ~is_err(w.parser.current) /\ w.parser.current.kind = kind
    THEN advance(w)
    ELSE error_at_current(w, message)

\* emit_byte tagging the byte with the line of the current token
emit_byte_current(w, byte) ==
    IF w.err # "none" THEN w
    ELSE IF is_err(w.parser.previous) THEN [w EXCEPT !.err = "Scan"]
    ELSE [w EXCEPT !.chunk = write(w.chunk, byte, w.parser.current.line)]

emit_byte(w, byte) ==
    IF w.err # "none" THEN w
    ELSE IF is_err(w.parser.previous) THEN [w EXCEPT !.err = "Scan"]
    ELSE [w EXCEPT !.chunk = write(w.chunk, byte, w.parser.previous.line)]

emit_bytes(w, byte1, byte2) == emit_byte(emit_byte(w, byte1), byte2)

emit_return(w) == emit_byte(w, Op_Return)

\* make_constant refusing the index u8::MAX as well
make_constant_ge(w, value) ==
    LET a  == add_constant(w.chunk, value)
        w1 == [w EXCEPT !.chunk = a.chunk]
    IN  IF a.index >= U8_MAX
        THEN [w |-> error(w1, "Too many constants in this chunk."), byte |-> 0]
        ELSE [w |-> w1, byte |-> a.index]

\* the compiler after the call, and the byte returned
make_constant(w, value) ==
    LET a  == add_constant(w.chunk, value)
        w1 == [w EXCEPT !.chunk = a.chunk]
    IN  IF a.index > U8_MAX
        THEN [w |-> error(w1, "Too many constants in this chunk."), byte |-> 0]
        ELSE [w |-> w1, byte |-> a.index]

emit_constant(w, value) ==
    LET m == make_constant(w, value)
    IN  emit_bytes(m.w, Op_Constant, m.byte)

\* emit Return; when no error was reported, disassemble the chunk
end_compiler(w) ==
    LET w1 == emit_return(w)
    IN  IF w1.err # "none" \/ w1.parser.had_error THEN w1
        ELSE LET d == disassemble(w1.chunk, "code")
             IN  IF d.panic THEN [w1 EXCEPT !.listing = d.listing, !.err = "panic"]
                 ELSE [w1 EXCEPT !.listing = d.listing]

\* the end of compile: Ok(chunk) exactly when no error was reported
compile_result(had_error) == IF had_error THEN "Unknown" ELSE "Ok"

\* the opcode binary() emits for an operator token
binary_opcode(kind) ==
    CASE kind = "Plus" -> Op_Add
      [] kind = "Minus" -> Op_Subtract
      [] kind = "Star" -> Op_Multiply
      [] kind = "Slash" -> Op_Divide

(***************************************************************************)
(* VM (vm.rs).  The operators thread a record m = [ip, stack, panic]:      *)
(* panic is "" until one of the VM's panics is hit, and every later        *)
(* operation is then skipped (the thread is unwinding).                    *)
(***************************************************************************)
STACK_MAX == 256

\* push keeping one slot of the stack free
push_tight(m, value) ==
    IF m.panic # "" THEN m
    ELSE IF Len(m.stack) >= STACK_MAX - 1 THEN [m EXCEPT !.panic = "Stack overflow"]
    ELSE [m EXCEPT !.stack = Append(@, value)]

push(m, value) ==
    IF m.panic # "" THEN m
    ELSE IF Len(m.stack) >= STACK_MAX THEN [m EXCEPT !.panic = "Stack overflow"]
    ELSE [m EXCEPT !.stack = Append(@, value)]

\* the VM after the pop, and the value popped
pop(m) ==
    IF m.panic # "" THEN [m |-> m, value |-> NaN]
    ELSE IF m.stack = <<>>
         THEN [m |-> [m EXCEPT !.panic = "Stack underflow"], value |-> NaN]
    ELSE [m |-> [m EXCEPT !.stack = SubSeq(@, 1, Len(@) - 1)],
          value |-> m.stack[Len(m.stack)]]

\* the VM after the read, and the byte read
read_byte(m, chunk) ==
    IF m.panic # "" THEN [m |-> m, byte |-> 0]
    ELSE IF m.ip >= Len(chunk.code)
         THEN [m |-> [m EXCEPT !.panic = "index out of bounds"], byte |-> 0]
    ELSE [m |-> [m EXCEPT !.ip = @ + 1], byte |-> chunk.code[m.ip + 1].byte]

\* the VM after the read, and the constant read
read_constant(m, chunk) ==
    LET r == read_byte(m, chunk)
    IN  IF r.m.panic # "" THEN [m |-> r.m, value |-> NaN]
        ELSE IF r.byte >= Len(chunk.constants)
             THEN [m |-> [r.m EXCEPT !.panic = "index out of bounds"], value |-> NaN]
        ELSE [m |-> r.m, value |-> chunk.constants[r.byte + 1]]

\* the closure run passes to binary_op for an opcode
arith(opcode, a, b) ==
    CASE opcode = Op_Add -> f64_add(a, b)
      [] opcode = Op_Subtract -> f64_sub(a, b)
      [] opcode = Op_Multiply -> f64_mul(a, b)
      [] opcode = Op_Divide -> f64_div(a, b)

binary_op(m, opcode) ==
    LET b == pop(m)
        a == pop(b.m)
    IN  push(a.m, arith(opcode, a.value, b.value))

\* One iteration of the loop of run: the VM after it, whether run returned
\* Interpret::Ok, the value print_value was given for Return, what the trace
\* printed before the fetch (the stack, slot by slot, and the row of the
\* instruction at ip), and the offset the opcode was fetched at.  A panic of
\* the trace leaves the VM where it was: nothing is fetched.
run_step(m, chunk) ==
    LET d == debug_disassemble_instruction(chunk, m.ip)
        traced == <<[stack |-> m.stack, row |-> d.row]>>
        f == read_byte(m, chunk)
        at == IF f.m.panic # "" THEN <<>> ELSE <<m.ip>>
        go(m1) == [m |-> m1, returned |-> FALSE, printed |-> <<>>,
                   traced |-> traced, fetched |-> at]
    IN  IF d.panic
        THEN [m |-> [m EXCEPT !.panic = "index out of bounds"], returned |-> FALSE,
              printed |-> <<>>, traced |-> traced, fetched |-> <<>>]
        ELSE IF f.m.panic # "" THEN go(f.m)
        ELSE IF ~try_from_ok(f.byte) THEN go([f.m EXCEPT !.panic = "Invalid opcode"])
        ELSE IF f.byte = Op_Constant
             THEN LET c == read_constant(f.m, chunk) IN go(push(c.m, c.value))
        ELSE IF f.byte \in {Op_Add, Op_Subtract, Op_Multiply, Op_Divide}
             THEN go(binary_op(f.m, f.byte))
        ELSE IF f.byte = Op_Negate
             THEN LET v == pop(f.m) IN go(push(v.m, f64_neg(v.value)))
        ELSE LET v == pop(f.m)
             IN  IF v.m.panic # "" THEN go(v.m)
                 ELSE [m |-> v.m, returned |-> TRUE, printed |-> <<v.value>>,
                       traced |-> traced, fetched |-> at]

\* interpret after compile: a failed compile returns CompileError, a
\* successful one goes on to run
interpret_after_compile(cres) == IF cres = "Ok" THEN "run" ELSE "CompileError"

(***************************************************************************)
(* The state.                                                              *)
(***************************************************************************)
VARIABLES
    ip,         \* VM.ip
    stack,      \* VM.stack
    scanner,    \* Parser.scanner: [source, start, current, line]
    parser,     \* Parser: [current, previous, had_error, panic_mode]
    chunk,      \* Compiler.chunk: [code, constants]
    frames,     \* the compiler's call stack: what is left to do, innermost last
    pc,         \* "ready", "compiling", "running" or "crashed" (a panic)
    calls,      \* interpret calls made on this VM
    cres,       \* what compile returned: "none" (not yet), "Ok", "Parse", "Unknown", "Scan"
    result,     \* what interpret returned: "none" (not yet), "Ok", "CompileError"
    stderr,     \* the diagnostics this interpret call has printed
    stdout,     \* the values this interpret call has printed for Return
    trace,      \* what the trace of run has printed in this interpret call
    panic,      \* the panic message, "" when none
    fetched,    \* the offsets at which this interpret call fetched an opcode
    ip0,        \* VM.ip when this interpret call was made
    stack0,     \* VM.stack when this interpret call was made
    interner,   \* Scanner.interner of a scanner driven on its own: [map, vec]
    tokens,     \* what the scan_token calls on that scanner returned, in order
    listing,    \* the disassembly printed: by end_compiler in this interpret
                \* call, or by the latest disassemble_instruction on a chunk
                \* driven on its own
    codec,      \* an opcode conversion on its own: [op, byte, back]
    added       \* a chunk driven on its own: the index add_constant last returned

vars == <<ip, stack, scanner, parser, chunk, frames, pc, calls, cres, result,
          stderr, stdout, panic, fetched, ip0, stack0, interner, tokens, listing,
          codec, added, trace>>

\* add_constant has not been called
NoIndex == 0 - 1

\* no conversion: no opcode (op), no byte (byte), nothing decoded (back)
NoCodec == [op |-> "none", byte |-> 0 - 1, back |-> "none"]

\* VM::new; no compiler exists yet
Init ==
    /\ ip = 0
    /\ stack = <<>>
    /\ scanner = NewScanner(<<>>)
    /\ parser = NewParser(Token("Eof", <<>>, 1))
    /\ chunk = NewChunk
    /\ frames = <<>>
    /\ pc = "ready"
    /\ calls = 0
    /\ cres = "none"
    /\ result = "none"
    /\ stderr = <<>>
    /\ stdout = <<>>
    /\ panic = ""
    /\ fetched = <<>>
    /\ ip0 = 0
    /\ stack0 = <<>>
    /\ interner = NewInterner
    /\ tokens = <<>>
    /\ codec = NoCodec
    /\ added = NoIndex
    /\ trace = <<>>
    /\ listing = NoListing

(***************************************************************************)
(* The compiler's call stack.  A frame is a call that has not returned:    *)
(* fn names the function and the point it resumes at.                      *)
(*   "compile"           after expression(): consume Eof, end_compiler     *)
(*   "parse_precedence"  at its start: the prefix rule                     *)
(*   "loop"              parse_precedence at its while condition           *)
(*   "grouping"          after expression(): consume ')'                   *)
(*   "unary"             after parse_precedence(Unary): emit Negate        *)
(*   "binary"            after parse_precedence(next): emit the operator   *)
(***************************************************************************)
Frame(fn, prec, kind) == [fn |-> fn, prec |-> prec, kind |-> kind]

Top == frames[Len(frames)]

Rest == SubSeq(frames, 1, Len(frames) - 1)

W == [scanner |-> scanner, parser |-> parser, chunk |-> chunk,
      stderr |-> stderr, err |-> "none", listing |-> listing]

\* A step of the compiler ends in: "none" (compile goes on with the frames
\* given), "panic" (an unwrap of an Err token, or an index out of bounds when
\* w.err says so), "unreachable" (an unreachable!() was entered), or what
\* compile returns ("Ok", "Parse", "Unknown", "Scan").
Continue(w, fs) ==
    IF w.err # "none" THEN [w |-> w, frames |-> <<>>, end |-> w.err]
    ELSE [w |-> w, frames |-> fs, end |-> "none"]

Return(w, end) == [w |-> w, frames |-> <<>>, end |-> end]

\* parse_precedence parsing the operand of a leading '-' at Term precedence
parse_precedence_unary_term(w, prec, rest) ==
    LET token == w.parser.current
    IN  IF is_err(token) THEN Return(w, "panic")
        ELSE IF token.kind = "Number"
             THEN Continue(emit_constant(advance(w), parse_f64(token.text)),
                           rest \o <<Frame("loop", prec, "")>>)
        ELSE IF token.kind = "LeftParen"
             THEN Continue(advance(w),
                           rest \o <<Frame("loop", prec, ""),
                                     Frame("grouping", Prec_None, ""),
                                     Frame("parse_precedence", Prec_Assignment, "")>>)
        ELSE IF token.kind = "Minus"
             THEN LET w1 == advance(w)
                  IN  Continue(w1,
                             rest \o <<Frame("loop", prec, ""),
                                       Frame("unary", Prec_None, w1.parser.previous.kind),
                                       Frame("parse_precedence", Prec_Term, "")>>)
        ELSE Return(w, "Parse")

\* parse_precedence up to its loop: the prefix rule of the current token
parse_precedence(w, prec, rest) ==
    LET token == w.parser.current
    IN  IF is_err(token) THEN Return(w, "panic")
        ELSE IF token.kind = "Number"
             THEN Continue(emit_constant(advance(w), parse_f64(token.text)),
                           rest \o <<Frame("loop", prec, "")>>)
        ELSE IF token.kind = "LeftParen"
             THEN Continue(advance(w),
                           rest \o <<Frame("loop", prec, ""),
                                     Frame("grouping", Prec_None, ""),
                                     Frame("parse_precedence", Prec_Assignment, "")>>)
        ELSE IF token.kind = "Minus"
             THEN LET w1 == advance(w)
                  IN  IF is_err(w1.parser.previous) THEN Return(w1, "Scan")
                      ELSE Continue(w1,
                             rest \o <<Frame("loop", prec, ""),
                                       Frame("unary", Prec_None, w1.parser.previous.kind),
                                       Frame("parse_precedence", Prec_Unary, "")>>)
        ELSE Return(w, "Parse")

\* one evaluation of the while condition of parse_precedence, and its body
\* up to the call of parse_precedence in binary
parse_precedence_loop(w, prec, rest) ==
    LET token == w.parser.current
    IN  IF is_err(token) THEN Return(w, "panic")
        ELSE IF prec <= get_precedence(token.kind)
             THEN LET w1   == advance(w)
                      kind == w1.parser.previous.kind
                  IN  IF kind \in {"Plus", "Minus", "Star", "Slash"}
                      THEN Continue(w1,
                             rest \o <<Frame("loop", prec, ""),
                                       Frame("binary", Prec_None, kind),
                                       Frame("parse_precedence",
                                             next_prec(get_precedence(kind)), "")>>)
                      ELSE Return(w1, "Unknown")
        ELSE Continue(w, rest)

\* grouping after its expression
grouping(w, rest) ==
    Continue(consume(w, "RightParen", "Expect '(' after expression."), rest)

\* unary after its operand
unary(w, kind, rest) ==
    IF kind = "Minus" THEN Continue(emit_byte(w, Op_Negate), rest)
    ELSE Return(w, "unreachable")

\* binary after its right operand
binary(w, kind, rest) ==
    IF kind \in {"Plus", "Minus", "Star", "Slash"}
    THEN Continue(emit_byte(w, binary_opcode(kind)), rest)
    ELSE Return(w, "unreachable")

\* compile after its expression
compile(w) ==
    LET w1 == consume(w, "Eof", "Expect end of expression.")
        w2 == end_compiler(w1)
    IN  IF w2.err # "none" THEN Return(w2, w2.err)
        ELSE Return(w2, compile_result(w2.parser.had_error))

\* The state after a step of the compiler; when compile returns, interpret
\* either returns CompileError or calls run, which starts at the VM's ip.
Step(o) ==
    /\ scanner' = o.w.scanner
    /\ parser' = o.w.parser
    /\ chunk' = o.w.chunk
    /\ stderr' = o.w.stderr
    /\ listing' = o.w.listing
    /\ frames' = o.frames
    /\ IF o.end = "none"
       THEN pc' = "compiling" /\ UNCHANGED <<cres, result, panic>>
       ELSE IF o.end \in {"panic", "unreachable"}
       THEN /\ pc' = "crashed"
            /\ panic' = IF o.end = "unreachable"
                        THEN "internal error: entered unreachable code"
                        ELSE IF o.w.err = "panic" THEN "index out of bounds"
                        ELSE "called Result::unwrap() on an Err value"
            /\ UNCHANGED <<cres, result>>
       ELSE /\ cres' = o.end
            /\ panic' = panic
            /\ IF interpret_after_compile(o.end) = "run"
               THEN pc' = "running" /\ result' = result
               ELSE pc' = "ready" /\ result' = "CompileError"
    /\ UNCHANGED <<ip, stack, calls, stdout, fetched, ip0, stack0, interner, tokens, codec,
                 added, trace>>

(***************************************************************************)
(* The operations.                                                         *)
(***************************************************************************)
\* The characters str::trim strips, those char::is_whitespace holds for: the
\* Unicode property White_Space.  The first row is U+0009 to U+000D and
\* U+0020, the second U+0085, U+00A0 and U+1680.  A character of a line that
\* a string of this module cannot hold is written as "U+" and its code point.
White_Space ==
    {"\t", "\n", "", "\f", "\r", " ",
     "", " ", " ",
     "U+2000", "U+2001", "U+2002", "U+2003", "U+2004", "U+2005",
     "U+2006", "U+2007", "U+2008", "U+2009", "U+200A",
     "U+2028", "U+2029", "U+202F", "U+205F", "U+3000"}

\* A line the repl passes to interpret: what read_line returned, up to and
\* with the newline if one ended it, unless its trim() is empty.
IsReplLine(source) ==
    /\ {i \in 1..(Len(source) - 1) : source[i] = "\n"} = {}
    /\ {i \in 1..Len(source) : source[i] \notin White_Space} # {}

\* VM::interpret up to the call of compile: Compiler::new(source).  A VM is
\* given a second source by the repl only, line after line: the source before
\* it was a line of the repl too, ended by a newline or by an end of the
\* input that was not the last (the end of a read on a terminal).
Interpret(source) ==
    /\ pc = "ready"
    /\ calls < MaxCalls
    /\ calls > 0 => IsReplLine(scanner.source)
    /\ LET r == scan_token(source, 0, 1)
       IN  /\ scanner' = ScannerAfter(NewScanner(source), r)
           /\ parser' = NewParser(r.token)
    /\ chunk' = NewChunk
    /\ frames' = <<Frame("compile", Prec_None, ""),
                   Frame("parse_precedence", Prec_Assignment, "")>>
    /\ pc' = "compiling"
    /\ calls' = calls + 1
    /\ cres' = "none"
    /\ result' = "none"
    /\ stderr' = <<>>
    /\ stdout' = <<>>
    /\ trace' = <<>>
    /\ fetched' = <<>>
    /\ listing' = NoListing
    /\ ip0' = ip
    /\ stack0' = stack
    /\ UNCHANGED <<ip, stack, panic, interner, tokens, codec, added>>

ParsePrecedence ==
    /\ pc = "compiling"
    /\ Top.fn = "parse_precedence"
    /\ Step(parse_precedence(W, Top.prec, Rest))

ParsePrecedenceLoop ==
    /\ pc = "compiling"
    /\ Top.fn = "loop"
    /\ Step(parse_precedence_loop(W, Top.prec, Rest))

Grouping ==
    /\ pc = "compiling"
    /\ Top.fn = "grouping"
    /\ Step(grouping(W, Rest))

Unary ==
    /\ pc = "compiling"
    /\ Top.fn = "unary"
    /\ Step(unary(W, Top.kind, Rest))

Binary ==
    /\ pc = "compiling"
    /\ Top.fn = "binary"
    /\ Step(binary(W, Top.kind, Rest))

Compile ==
    /\ pc = "compiling"
    /\ Top.fn = "compile"
    /\ Step(compile(W))

\* One iteration of the loop of VM::run.  The process's standard output is
\* the listing, then what trace and stdout hold in the order they were
\* printed: the trace of every iteration, and after the trace of the Return
\* the value popped.
Run ==
    /\ pc = "running"
    /\ LET r == run_step([ip |-> ip, stack |-> stack, panic |-> ""], chunk)
       IN  /\ ip' = r.m.ip
           /\ stack' = r.m.stack
           /\ panic' = r.m.panic
           /\ stdout' = stdout \o r.printed
           /\ trace' = trace \o r.traced
           /\ fetched' = fetched \o r.fetched
           /\ pc' = IF r.m.panic # "" THEN "crashed"
                    ELSE IF r.returned THEN "ready" ELSE "running"
           /\ result' = IF r.returned THEN "Ok" ELSE result
    /\ UNCHANGED <<scanner, parser, chunk, frames, calls, cres, stderr, ip0, stack0,
                   interner, tokens, listing, codec, added>>

(***************************************************************************)
(* The inputs.                                                             *)
(***************************************************************************)
Alphabet == {"0", "1", "2", "+", "-", "*", "/", "(", ")", "@", "\n"}

\* every source of at most MaxLen bytes over Alphabet
Strings == UNION {[1..n -> Alphabet] : n \in 0..MaxLen}

Literals == {"1", "2", "3"}

Operators == {"+", "-", "*", "/"}

\* a op1 b op2 c
Triples ==
    {<<a, op1, b, op2, c>> : a \in Literals, op1 \in Operators, b \in Literals,
                             op2 \in Operators, c \in Literals}

\* (a op1 b) op2 c
Grouped ==
    {<<"(", a, op1, b, ")", op2, c>> :
        a \in Literals, op1 \in Operators, b \in Literals,
        op2 \in Operators, c \in Literals}

\* a sequence of bytes from the text of its lines, joined by newlines
RECURSIVE Chars(_)
Chars(lines) ==
    IF lines = <<>> THEN <<>>
    ELSE IF Len(lines) = 1 THEN Head(lines)
    ELSE Head(lines) \o <<"\n">> \o Chars(Tail(lines))

\* expressions that span several lines
Lined ==
    {Chars(<<<<"1">>, <<"+">>, <<"2">>, <<>>>>),
     Chars(<<<<"-">>, <<"1">>>>),
     Chars(<<<<"1", "+", "(">>, <<"2">>, <<")">>, <<>>>>),
     Chars(<<<<"-", "(", "1">>, <<")">>>>),
     Chars(<<<<"(", "1">>, <<")">>, <<"*", "2">>>>)}

\* -a op b
Negated ==
    {<<"-", a, op, b>> : a \in Literals, op \in Operators, b \in Literals}

\* the sources the specification names
Examples ==
    {<<"2", " ", "+", " ", "3", " ", "*", " ", "4">>,
     <<"(", "2", " ", "+", " ", "3", ")", " ", "*", " ", "4">>,
     <<"8", " ", "-", " ", "4", " ", "-", " ", "2">>,
     <<"1", " ", "2">>}

\* 1+1+...+1 with n literals
Sum(n) == [i \in 1..(2 * n - 1) |-> IF i % 2 = 1 THEN "1" ELSE "+"]

\* sums whose literal count is the capacity of the constant pool or above it
PoolSources == {Sum(n) : n \in (U8_MAX + 1)..(U8_MAX + 1 + PoolSlack)}

\* the sum whose last literal overflows the pool, followed by a byte the
\* scanner has no token for
PoolThenError == {Sum(U8_MAX + 2) \o <<"@">>}

\* 1+(1+(...+(1)...)) with n literals: every literal is pushed before the
\* first Add runs
Nest(n) ==
    [i \in 1..(4 * n - 3) |->
        IF i <= 3 * (n - 1)
        THEN (IF i % 3 = 1 THEN "1" ELSE IF i % 3 = 2 THEN "+" ELSE "(")
        ELSE IF i = 3 * n - 2 THEN "1" ELSE ")"]

\* the nested sum that fills the stack
StackSources == {Nest(STACK_MAX)}

\* expressions whose literals or results are not f64 values exactly, so
\* that str::parse or the operation rounds
Rounded ==
    {<<"1", "/", "3">>, <<"2", "/", "3">>,
     <<"0", ".", "1", "+", "0", ".", "2">>}

Sources ==
    Strings \cup Triples \cup Grouped \cup Negated \cup Lined \cup Examples
    \cup Rounded \cup PoolSources \cup PoolThenError \cup StackSources

\* The sources of the later interpret calls on one VM: the lines the repl
\* reads, each with the newline that ends it, and a last line that the end of
\* the input ends.
LaterSources ==
    {line \o <<"\n">> :
        line \in {<<"1">>, <<"@">>, <<"1", ")">>, <<"-", "1">>, <<"1", "+", "2">>,
                  <<"1", "+", "2", "*", "1">>,
                  <<"1", "-", "(", "2", "-", "1", ")">>}}
    \cup {<<"1">>, <<"1", "+", "2">>}

Next ==
    \/ \E source \in (IF calls = 0 THEN Sources ELSE LaterSources) :
          Interpret(source)
    \/ ParsePrecedence
    \/ ParsePrecedenceLoop
    \/ Grouping
    \/ Unary
    \/ Binary
    \/ Compile
    \/ Run

Spec == Init /\ [][Next]_vars

\* run is a loop: once entered it keeps taking iterations
FairSpec == Spec /\ WF_vars(Run)

(***************************************************************************)
(* The scanner driven on its own, as the tests of scanner.rs drive it:     *)
(* Scanner::new(source, interner), then scan_token again and again.        *)
(***************************************************************************)
ScanAlphabet == {"o", "r", "1", ".", "\"", "\n", "/", " ", "@", "="}

ScanStrings == UNION {[1..n -> ScanAlphabet] : n \in 0..MaxScanLen}

\* the sources the specification and the tests of scanner.rs name
ScanExamples ==
    {<<"a", "n", "d", "y", " ", "f", "o", "r", "m", "l", "e", "s", "s", " ",
       "f", "o", " ", "_", " ", "_", "1", "2", "3", " ", "_", "a", "b", "c", " ",
       "a", "b", "1", "2", "3", "\n", "a", "Z", "9", "_">>,
     <<"a", "n", "d", " ", "o", "r", " ", "f", "o", "r", " ", "a", "n", "d", "y">>,
     <<"1", "2", "3", ".", "4", "5", "6">>,
     <<"1", "2", "3", ".">>,
     <<".", "4", "5", "6">>,
     <<"1", ".", "2", ".", "3">>,
     Chars(<<<<"1", " ", "\"", "a">>, <<"b">>, <<"c", "\"", " ", "2">>>>),
     Chars(<<<<"\"", "a">>, <<"b">>, <<" ", "c">>>>),
     Chars(<<<<"/", "/", " ", "x">>, <<"1", " ", "/", "/">>, <<>>, <<"@", "2">>>>),
     <<"1", "@", "o", "r", " ", "#", "(", "x", ")", "!", "=", "<", "2">>,
     Chars(<<<<"v", "a", "r", " ", "f", "o", "o", " ", "=", " ", "4", "2", ";">>,
             <<"v", "a", "r", " ", "b", "a", "r", " ", "=", " ", "2", "7", ";">>,
             <<"f", "o", "o", " ", "=", " ", "f", "o", "o", " ", "+", " ", "b", "a", "r", ";">>,
             <<>>>>)}

ScanSources == ScanStrings \cup ScanExamples

ScanInit ==
    /\ \E source \in ScanSources : scanner = NewScanner(source)
    /\ interner = NewInterner
    /\ tokens = <<>>
    /\ codec = NoCodec
    /\ added = NoIndex
    /\ trace = <<>>
    /\ listing = NoListing
    /\ ip = 0
    /\ stack = <<>>
    /\ parser = NewParser(Token("Eof", <<>>, 1))
    /\ chunk = NewChunk
    /\ frames = <<>>
    /\ pc = "ready"
    /\ calls = 0
    /\ cres = "none"
    /\ result = "none"
    /\ stderr = <<>>
    /\ stdout = <<>>
    /\ panic = ""
    /\ fetched = <<>>
    /\ ip0 = 0
    /\ stack0 = <<>>

\* One call of scan_token.  Number, String and Identifier carry the index
\* their lexeme was interned at; the entry added to tokens also keeps the
\* name given to intern and the scanner's fields before (current0, line0)
\* and after the call.
ScanToken ==
    /\ Len(tokens) <= Len(scanner.source) + 1
    /\ LET r       == scan_token(scanner.source, scanner.current, scanner.line)
           payload == r.token.kind \in {"Number", "String", "Identifier"}
           i       == intern(interner, r.token.text)
       IN  /\ scanner' = ScannerAfter(scanner, r)
           /\ interner' = IF payload THEN i.interner ELSE interner
           /\ tokens' = Append(tokens,
                  [kind |-> r.token.kind,
                   idx |-> IF payload THEN i.idx ELSE 0 - 1,
                   name |-> IF payload THEN r.token.text ELSE <<>>,
                   message |-> IF r.token.kind = "Error" THEN r.token.text ELSE <<>>,
                   line |-> r.token.line,
                   current0 |-> scanner.current, line0 |-> scanner.line,
                   start |-> r.start, current |-> r.current])
    /\ UNCHANGED <<ip, stack, parser, chunk, frames, pc, calls, cres, result,
                   stderr, stdout, panic, fetched, ip0, stack0, listing, codec,
                   added, trace>>

ScanNext == ScanToken

ScanSpec == ScanInit /\ [][ScanNext]_vars

(***************************************************************************)
(* The opcode conversions on their own: an opcode is encoded and the byte  *)
(* decoded, or any byte is decoded.                                        *)
(***************************************************************************)
OpInit ==
    /\ codec \in {[op |-> op, byte |-> 0 - 1, back |-> "none"] : op \in OpCodes}
                 \cup {[op |-> "none", byte |-> b, back |-> "none"] : b \in 0..U8_MAX}
    /\ scanner = NewScanner(<<>>)
    /\ interner = NewInterner
    /\ tokens = <<>>
    /\ added = NoIndex
    /\ trace = <<>>
    /\ listing = NoListing
    /\ ip = 0
    /\ stack = <<>>
    /\ parser = NewParser(Token("Eof", <<>>, 1))
    /\ chunk = NewChunk
    /\ frames = <<>>
    /\ pc = "ready"
    /\ calls = 0
    /\ cres = "none"
    /\ result = "none"
    /\ stderr = <<>>
    /\ stdout = <<>>
    /\ panic = ""
    /\ fetched = <<>>
    /\ ip0 = 0
    /\ stack0 = <<>>

\* u8::from(op)
From ==
    /\ codec.op # "none"
    /\ codec.byte = 0 - 1
    /\ codec' = [codec EXCEPT !.byte = u8_from(codec.op)]
    /\ UNCHANGED <<ip, stack, scanner, parser, chunk, frames, pc, calls, cres,
                   result, stderr, stdout, panic, fetched, ip0, stack0, interner,
                   tokens, listing, added, trace>>

\* OpCode::try_from(byte)
TryFrom ==
    /\ codec.byte # 0 - 1
    /\ codec.back = "none"
    /\ codec' = [codec EXCEPT !.back = try_from(codec.byte)]
    /\ UNCHANGED <<ip, stack, scanner, parser, chunk, frames, pc, calls, cres,
                   result, stderr, stdout, panic, fetched, ip0, stack0, interner,
                   tokens, listing, added, trace>>

OpNext ==
    \/ From
    \/ TryFrom

OpSpec == OpInit /\ [][OpNext]_vars

(***************************************************************************)
(* A chunk driven on its own: Chunk::new(), then write, add_constant and   *)
(* disassemble_instruction in any order.                                   *)
(***************************************************************************)
\* the bytes written: an opcode with an operand (also the operand 0), an
\* opcode without one, and a byte that is no opcode
ChunkBytes == {Op_Constant, Op_Add, Op_Return + 1}

ChunkLines == {1, 2}

ChunkValues == {Fin(FALSE, 1, 1), Fin(FALSE, 2, 1)}

ChunkInit ==
    /\ chunk = NewChunk
    /\ added = NoIndex
    /\ trace = <<>>
    /\ listing = NoListing
    /\ scanner = NewScanner(<<>>)
    /\ interner = NewInterner
    /\ tokens = <<>>
    /\ codec = NoCodec
    /\ ip = 0
    /\ stack = <<>>
    /\ parser = NewParser(Token("Eof", <<>>, 1))
    /\ frames = <<>>
    /\ pc = "ready"
    /\ calls = 0
    /\ cres = "none"
    /\ result = "none"
    /\ stderr = <<>>
    /\ stdout = <<>>
    /\ panic = ""
    /\ fetched = <<>>
    /\ ip0 = 0
    /\ stack0 = <<>>

\* Chunk::write
Write(byte, line) ==
    /\ pc = "ready"
    /\ Len(chunk.code) < MaxCode
    /\ chunk' = write(chunk, byte, line)
    /\ UNCHANGED <<ip, stack, scanner, parser, frames, pc, calls, cres, result,
                   stderr, stdout, panic, fetched, ip0, stack0, interner, tokens,
                   listing, codec, added, trace>>

\* Chunk::add_constant
AddConstant(value) ==
    /\ pc = "ready"
    /\ Len(chunk.constants) < MaxPool
    /\ LET a == add_constant(chunk, value)
       IN  /\ chunk' = a.chunk
           /\ added' = a.index
    /\ UNCHANGED <<ip, stack, scanner, parser, frames, pc, calls, cres, result,
                   stderr, stdout, panic, fetched, ip0, stack0, interner, tokens,
                   listing, codec, trace>>

\* Chunk::disassemble_instruction: the listing is the row it printed, whole
\* or up to the index that was out of bounds (a panic)
DisassembleInstruction(offset) ==
    /\ pc = "ready"
    /\ LET d == disassemble_instruction(chunk, offset)
       IN  /\ listing' = [header |-> <<>>, rows |-> <<d.row>>, end |-> d.next]
           /\ IF d.panic
              THEN pc' = "crashed" /\ panic' = "index out of bounds"
              ELSE UNCHANGED <<pc, panic>>
    /\ UNCHANGED <<ip, stack, scanner, parser, chunk, frames, calls, cres, result,
                   stderr, stdout, fetched, ip0, stack0, interner, tokens, codec,
                   added, trace>>

ChunkNext ==
    \/ \E byte \in ChunkBytes, line \in ChunkLines : Write(byte, line)
    \/ \E value \in ChunkValues : AddConstant(value)
    \/ \E offset \in 0..Len(chunk.code) : DisassembleInstruction(offset)

ChunkSpec == ChunkInit /\ [][ChunkNext]_vars

(***************************************************************************)
(* Properties.                                                             *)
(***************************************************************************)
Bytes(c) == [i \in 1..Len(c.code) |-> c.code[i].byte]

Executed == Len(fetched)

\* this interpret call was made on a VM at offset 0 with an empty stack
FromReady == ip0 = 0 /\ stack0 = <<>>

\* an instruction is two bytes long when its opcode is Constant and one byte
\* long otherwise
InstructionLen(c, offset) == IF c.code[offset + 1].byte = Op_Constant THEN 2 ELSE 1

\* The offsets of at most n instructions of a chunk from offset on, in order,
\* and the offset after them.  The instructions are walked by halves, the
\* second half starting where the first ended.
RECURSIVE BoundariesFrom(_, _, _)
BoundariesFrom(c, offset, n) ==
    IF n = 0 \/ offset >= Len(c.code) THEN [at |-> <<>>, end |-> offset]
    ELSE IF n = 1
         THEN [at |-> <<offset>>, end |-> offset + InstructionLen(c, offset)]
    ELSE LET a == BoundariesFrom(c, offset, n \div 2)
             b == BoundariesFrom(c, a.end, n - n \div 2)
         IN  [at |-> a.at \o b.at, end |-> b.end]

\* the offsets of the instructions of a chunk from offset on
Boundaries(c, offset) == BoundariesFrom(c, offset, Len(c.code)).at

\* the offsets of the Constant instructions of a chunk from offset on
ConstantsAt(c, offset) ==
    SelectSeq(Boundaries(c, offset), LAMBDA o : c.code[o + 1].byte = Op_Constant)

\* walking the instructions from offset, every Constant has an operand byte
\* and it is less than constants.len()
OperandsValid(c, offset) ==
    LET at == ConstantsAt(c, offset)
    IN  \A i \in 1..Len(at) :
           /\ at[i] + 1 < Len(c.code)
           /\ c.code[at[i] + 2].byte < Len(c.constants)

\* C1: in every chunk the compiler builds, during and after compilation, the
\* operand byte of every Constant instruction is a valid index of that
\* chunk's constant pool.
C1_OperandsInPool == OperandsValid(chunk, 0)

\* the pool has overflowed, index 0 was substituted, compilation goes on
C1_Witness ==
    /\ pc = "compiling"
    /\ Len(chunk.constants) > U8_MAX + 1
    /\ chunk.code[Len(chunk.code)].byte = 0
    /\ chunk.code[Len(chunk.code) - 1].byte = Op_Constant

\* C2: the pipeline fails closed.  Once compilation has reported an error
\* (had_error, a diagnostic) or returned one, the VM never runs: no
\* instruction of the chunk is fetched and ip and stack are as they were;
\* and interpret returns CompileError: it does not panic, and when it has
\* returned, it has returned CompileError.
C2_FailsClosed ==
    /\ (parser.had_error \/ stderr # <<>> \/ cres \notin {"none", "Ok"})
          => /\ pc # "running"
             /\ Executed = 0
             /\ ip = ip0
             /\ stack = stack0
             /\ pc # "crashed"
             /\ pc = "ready" => result = "CompileError"
    /\ cres \notin {"none", "Ok"} => pc = "ready" /\ result = "CompileError"

\* C3: after every successful compile the chunk is executed from offset 0
\* with an empty stack, whatever the earlier interpret calls on the VM did.
C3_RunsFromOffsetZero ==
    (pc = "running" /\ Executed = 0) => (ip = 0 /\ stack = <<>>)

\* the next instruction of run, when there is one
NextOpcode == IF ip < Len(chunk.code) THEN chunk.code[ip + 1].byte ELSE 0 - 1

\* C4: push and pop are balanced for every expression the compiler accepts.
\* Running the chunk of a successful compile, the VM never pops an empty
\* stack, the stack holds exactly one value when Return is fetched, and it
\* is empty after Return halts.
C4_Balanced ==
    cres = "Ok"
       => /\ panic # "Stack underflow"
          /\ (pc = "running" /\ NextOpcode = Op_Return) => Len(stack) = 1
          /\ (pc = "running" /\ NextOpcode \in {Op_Add, Op_Subtract, Op_Multiply, Op_Divide})
                => Len(stack) >= 2
          /\ (pc = "running" /\ NextOpcode = Op_Negate) => Len(stack) >= 1
          /\ pc = "ready" => result = "Ok" /\ stack = <<>>

\* the bytes lo..hi of s are a number literal without a fraction
IsLiteral(s, lo, hi) == lo <= hi /\ \A i \in lo..hi : is_ascii_digit(s[i])

\* the value of the literal in the bytes lo..hi of s
LiteralValue(s, lo, hi) == parse_f64(SubSeq(s, lo, hi))

\* a (op) b computed directly, for the operator byte op
Direct(op, a, b) ==
    CASE op = "+" -> f64_add(a, b)
      [] op = "-" -> f64_add(a, f64_neg(b))
      [] op = "*" -> f64_mul(a, b)
      [] op = "/" -> f64_div(a, b)

\* a (op) b computed directly, for the instruction byte op
DirectOp(op, a, b) ==
    CASE op = Op_Add -> Direct("+", a, b)
      [] op = Op_Subtract -> Direct("-", a, b)
      [] op = Op_Multiply -> Direct("*", a, b)
      [] op = Op_Divide -> Direct("/", a, b)

OpcodeOf(op) ==
    CASE op = "+" -> Op_Add
      [] op = "-" -> Op_Subtract
      [] op = "*" -> Op_Multiply
      [] op = "/" -> Op_Divide

\* interpret, called on a VM at offset 0 with an empty stack, compiles the
\* source, does not panic, and returns Ok having printed v
Evaluates(v) ==
    /\ cres \in {"none", "Ok"}
    /\ FromReady => /\ pc # "crashed"
                    /\ pc = "ready" => result = "Ok" /\ stdout = <<v>>

\* interpret compiles the source, does not panic, and returns Ok having
\* printed v
Yields(v) ==
    /\ cres \in {"none", "Ok"}
    /\ pc # "crashed"
    /\ pc = "ready" => result = "Ok" /\ stdout = <<v>>

C5_Result ==
    LET s == scanner.source
    IN  /\ \A k \in 2..(Len(s) - 1) :
              (s[k] \in Operators /\ IsLiteral(s, 1, k - 1) /\ IsLiteral(s, k + 1, Len(s)))
                 => Yields(Direct(s[k], LiteralValue(s, 1, k - 1),
                                        LiteralValue(s, k + 1, Len(s))))
        /\ (Len(s) >= 2 /\ s[1] = "-" /\ IsLiteral(s, 2, Len(s)))
              => Yields([LiteralValue(s, 2, Len(s)) EXCEPT !.neg = TRUE])

C5_Instruction ==
    LET n == Len(stack)
    IN  /\ (pc = "running" /\ n >= 2
               /\ NextOpcode \in {Op_Add, Op_Subtract, Op_Multiply, Op_Divide})
              => stack' = SubSeq(stack, 1, n - 2)
                            \o <<DirectOp(NextOpcode, stack[n - 1], stack[n])>>
        /\ (pc = "running" /\ n >= 1 /\ NextOpcode = Op_Negate /\ stack[n].tag # "nan")
              => stack' = SubSeq(stack, 1, n - 1)
                            \o <<[stack[n] EXCEPT !.neg = ~stack[n].neg]>>

\* C5: compiling and running "a + b", "a - b", "a * b", "a / b" and "-a"
\* prints the result of the direct arithmetic with a on the left and b on the
\* right; every binary instruction replaces the two topmost values a (below)
\* and b (top) by a (op) b, and Negate replaces the top v by -v.
C5_Arithmetic == []C5_Result /\ [][C5_Instruction]_vars

IsTriple(s) ==
    /\ Len(s) = 5
    /\ s[1] \in Literals /\ s[3] \in Literals /\ s[5] \in Literals
    /\ s[2] \in Operators /\ s[4] \in Operators

IsGrouped(s) ==
    /\ Len(s) = 7
    /\ s[1] = "(" /\ s[5] = ")"
    /\ s[2] \in Literals /\ s[4] \in Literals /\ s[7] \in Literals
    /\ s[3] \in Operators /\ s[6] \in Operators

Val(c) == parse_f64(<<c>>)

\* C6: '*' and '/' bind tighter than '+' and '-', and parentheses override
\* this.  "a op1 b op2 c" with op1 of the lower and op2 of the higher
\* precedence is emitted as a b c op2 op1 and evaluates to a op1 (b op2 c);
\* "(a op1 b) op2 c" is emitted as a b op1 c op2 and evaluates to
\* (a op1 b) op2 c; "2 + 3 * 4" evaluates to 14 and "(2 + 3) * 4" to 20.
C6_Precedence ==
    LET s == scanner.source
    IN  /\ (IsTriple(s) /\ s[2] \in {"+", "-"} /\ s[4] \in {"*", "/"})
              => /\ cres = "Ok"
                    => Bytes(chunk) = <<Op_Constant, 0, Op_Constant, 1, Op_Constant, 2,
                                        OpcodeOf(s[4]), OpcodeOf(s[2]), Op_Return>>
                 /\ Evaluates(Direct(s[2], Val(s[1]), Direct(s[4], Val(s[3]), Val(s[5]))))
        /\ IsGrouped(s)
              => /\ cres = "Ok"
                    => Bytes(chunk) = <<Op_Constant, 0, Op_Constant, 1, OpcodeOf(s[3]),
                                        Op_Constant, 2, OpcodeOf(s[6]), Op_Return>>
                 /\ Evaluates(Direct(s[6], Direct(s[3], Val(s[2]), Val(s[4])), Val(s[7])))
        /\ s = <<"2", " ", "+", " ", "3", " ", "*", " ", "4">>
              => Evaluates(Fin(FALSE, 14, 1))
        /\ s = <<"(", "2", " ", "+", " ", "3", ")", " ", "*", " ", "4">>
              => Evaluates(Fin(FALSE, 20, 1))

\* "2 + 3 * 4" has printed 14
C6_Witness ==
    /\ scanner.source = <<"2", " ", "+", " ", "3", " ", "*", " ", "4">>
    /\ pc = "ready"
    /\ result = "Ok"
    /\ stdout = <<Fin(FALSE, 14, 1)>>
    /\ Bytes(chunk) = <<Op_Constant, 0, Op_Constant, 1, Op_Constant, 2,
                        Op_Multiply, Op_Add, Op_Return>>

\* C7: binary operators of equal precedence are left-associative.
\* "a op1 b op2 c" with op1 and op2 of the same precedence is emitted as
\* a b op1 c op2 and evaluates to (a op1 b) op2 c; "8 - 4 - 2" evaluates
\* to 2.
C7_LeftAssociative ==
    LET s == scanner.source
    IN  /\ (IsTriple(s) /\ ((s[2] \in {"+", "-"}) <=> (s[4] \in {"+", "-"})))
              => /\ cres = "Ok"
                    => Bytes(chunk) = <<Op_Constant, 0, Op_Constant, 1, OpcodeOf(s[2]),
                                        Op_Constant, 2, OpcodeOf(s[4]), Op_Return>>
                 /\ Evaluates(Direct(s[4], Direct(s[2], Val(s[1]), Val(s[3])), Val(s[5])))
        /\ s = <<"8", " ", "-", " ", "4", " ", "-", " ", "2">>
              => Evaluates(Fin(FALSE, 2, 1))

\* "8 - 4 - 2" has printed 2
C7_Witness ==
    /\ scanner.source = <<"8", " ", "-", " ", "4", " ", "-", " ", "2">>
    /\ pc = "ready"
    /\ result = "Ok"
    /\ stdout = <<Fin(FALSE, 2, 1)>>
    /\ Bytes(chunk) = <<Op_Constant, 0, Op_Constant, 1, Op_Subtract,
                        Op_Constant, 2, Op_Subtract, Op_Return>>

\* C8: a source of one unexpected character followed by a valid expression
\* (here a number literal) reports exactly one error and executes nothing:
\* compile returns a failure, interpret returns CompileError, nothing panics.
C8_ScanErrorIsCompileError ==
    LET s == scanner.source
    IN  (Len(s) >= 2 /\ s[1] = "@" /\ IsLiteral(s, 2, Len(s)))
           => /\ pc # "crashed"
              /\ Executed = 0
              /\ pc = "ready" => /\ result = "CompileError"
                                 /\ cres \notin {"none", "Ok"}
                                 /\ Len(stderr) = 1

\* walking the instructions from offset, the k-th Constant (counted from 0)
\* has the operand k, or 0 past u8::MAX, and every constant of the pool has
\* its instruction
PoolOperands(c, offset, k) ==
    LET at == ConstantsAt(c, offset)
    IN  /\ k + Len(at) = Len(c.constants)
        /\ \A i \in 1..Len(at) :
              /\ at[i] + 1 < Len(c.code)
              /\ c.code[at[i] + 2].byte
                    = (IF k + i - 1 <= U8_MAX THEN k + i - 1 ELSE 0)

TooManyReported ==
    \E i \in 1..Len(stderr) : stderr[i].message = "Too many constants in this chunk."

\* C9: the operands of the Constant instructions are 0, 1, ... in order up to
\* the 256th literal and 0 for every literal after it, and emission goes on;
\* with more than 256 literals "Too many constants in this chunk." is
\* reported and the compile fails, with 256 or fewer it is not reported.
C9_PoolBound ==
    /\ PoolOperands(chunk, 0, 0)
    /\ Len(chunk.constants) > U8_MAX + 1
          => TooManyReported /\ parser.had_error /\ cres # "Ok"
    /\ Len(chunk.constants) <= U8_MAX + 1 => ~TooManyReported
    /\ (scanner.source = Sum(U8_MAX + 1) /\ pc = "ready")
          => result = "Ok" /\ stderr = <<>>

\* 258 literals: two substitutions of index 0, one report, a failed compile
C9_Witness ==
    /\ Len(chunk.constants) = U8_MAX + 3
    /\ cres = "Unknown"
    /\ result = "CompileError"
    /\ Len(stderr) = 1
    /\ chunk.code[Len(chunk.code) - 2].byte = 0
    /\ chunk.code[Len(chunk.code) - 5].byte = 0
    /\ chunk.code[Len(chunk.code) - 8].byte = U8_MAX

\* C10: compile returns the chunk exactly when had_error is false at its end,
\* so every failed compile has had_error set.
C10_SuccessIffNoError ==
    cres # "none" => (cres = "Ok" <=> ~parser.had_error)

\* the number of Return instructions met walking the instructions from offset
ReturnCount(c, offset) ==
    Len(SelectSeq(Boundaries(c, offset), LAMBDA o : c.code[o + 1].byte = Op_Return))

\* C11: compile parses one expression, then requires Eof, then emits Return.
\* No Return is in the chunk while the expression is being parsed; the chunk
\* of a successful compile has exactly one Return instruction, as its last
\* byte, and nothing but whitespace and comments is left of the source; a
\* source with tokens after the first expression ("1 2") does not compile.
C11_OneExpressionThenReturn ==
    /\ pc = "compiling" => ReturnCount(chunk, 0) = 0
    /\ cres = "Ok"
          => /\ Len(chunk.code) >= 1
             /\ chunk.code[Len(chunk.code)].byte = Op_Return
             /\ ReturnCount(chunk, 0) = 1
             /\ parser.previous.kind = "Eof"
             /\ is_at_end(scanner.source,
                          skip_whitespace(scanner.source, scanner.current,
                                          scanner.line).current)
    /\ (scanner.source = <<"1", " ", "2">> /\ pc # "compiling")
          => cres = "Unknown" /\ result = "CompileError"

\* a successful compile whose chunk has the byte of Return as an operand too:
\* the seventh constant's index
C11_Witness ==
    /\ cres = "Ok"
    /\ ReturnCount(chunk, 0) = 1
    /\ Len(chunk.constants) >= 7
    /\ \E i \in 1..(Len(chunk.code) - 1) : chunk.code[i].byte = Op_Return

\* run on the chunk of a successful compile
RunsCompiled == cres = "Ok"

C12_InOrder ==
    RunsCompiled
       => /\ pc # "crashed"
          /\ fetched = SubSeq(Boundaries(chunk, 0), 1, Len(fetched))
          /\ pc = "running"
                => \A i \in 1..Len(fetched) : chunk.code[fetched[i] + 1].byte # Op_Return
          /\ pc = "ready"
                => /\ result = "Ok"
                   /\ ip = Len(chunk.code)
                   /\ fetched = Boundaries(chunk, 0)
                   /\ chunk.code[fetched[Len(fetched)] + 1].byte = Op_Return
                   /\ Len(stdout) = 1

C12_Return ==
    (pc = "running" /\ NextOpcode = Op_Return /\ stack # <<>>)
       => /\ stdout' = Append(stdout, stack[Len(stack)])
          /\ stack' = SubSeq(stack, 1, Len(stack) - 1)
          /\ pc' = "ready"
          /\ result' = "Ok"

\* C12: run terminates on every chunk a successful compile returns.  It
\* fetches the instructions once each in increasing offset order, halts on
\* the first Return it fetches, which is the last byte (ip = code.len() at
\* the halt), pops the top of the stack and prints it, and returns Ok.
C12_RunTerminates ==
    /\ []C12_InOrder
    /\ [][C12_Return]_vars
    /\ (pc = "running" /\ RunsCompiled) ~> (pc = "ready" /\ result = "Ok")

(***************************************************************************)
(* Properties of the scanner.                                              *)
(***************************************************************************)
\* the number of newline bytes among the first n bytes of the source
Newlines(source, n) == Cardinality({k \in 1..n : source[k] = "\n"})

\* the bytes of the i-th token returned
Lexeme(i) == SubSeq(scanner.source, tokens[i].start + 1, tokens[i].current)

\* the interned text of the i-th token returned
Text(i) == lookup(interner, tokens[i].idx)

\* C13: the scanner advances strictly forward and reaches Eof.  No call of
\* scan_token decreases current; a call that returns another token than Eof
\* (an error token too) consumes at least one byte; after an Eof every later
\* call returns Eof; so at most len(source) tokens precede Eof.
C13_StrictlyForward ==
    /\ scanner.current <= Len(scanner.source)
    /\ \A i \in 1..Len(tokens) :
          /\ tokens[i].current0 <= tokens[i].start
          /\ tokens[i].start <= tokens[i].current
          /\ tokens[i].kind # "Eof" => tokens[i].current0 < tokens[i].current
          /\ i > 1 => tokens[i].current0 = tokens[i - 1].current
          /\ (i > 1 /\ tokens[i - 1].kind = "Eof") => tokens[i].kind = "Eof"
    /\ Cardinality({i \in 1..Len(tokens) : tokens[i].kind # "Eof"})
          <= Len(scanner.source)
    /\ Len(tokens) > Len(scanner.source) => tokens[Len(tokens)].kind = "Eof"

\* a source of three bytes gave three tokens, an error among them, and then
\* Eof twice
C13_Witness ==
    /\ Len(scanner.source) = 3
    /\ Len(tokens) = 5
    /\ tokens[3].kind # "Eof"
    /\ tokens[4].kind = "Eof" /\ tokens[5].kind = "Eof"
    /\ \E i \in 1..3 : tokens[i].kind = "Error"

\* C14: after any sequence of scan_token calls the line counter is 1 plus
\* the number of newlines consumed so far, whether they stood between
\* tokens, at the end of a comment or inside a string literal; after a
\* string literal spanning three lines it is two more than at the opening
\* quote.
C14_LineCounter ==
    /\ scanner.line = 1 + Newlines(scanner.source, scanner.current)
    /\ \A i \in 1..Len(tokens) :
          /\ tokens[i].line = 1 + Newlines(scanner.source, tokens[i].current)
          /\ tokens[i].line0 = 1 + Newlines(scanner.source, tokens[i].current0)
          /\ (tokens[i].kind = "String"
                /\ Cardinality({k \in 1..Len(Lexeme(i)) : Lexeme(i)[k] = "\n"}) = 2)
                => tokens[i].line = 1 + Newlines(scanner.source, tokens[i].start) + 2

\* a string literal spanning three lines has been scanned: the counter went
\* from 1 to 3
C14_Witness ==
    /\ scanner.source = Chars(<<<<"1", " ", "\"", "a">>, <<"b">>, <<"c", "\"", " ", "2">>>>)
    /\ Len(tokens) = 3
    /\ tokens[2].kind = "String"
    /\ tokens[2].line0 = 1
    /\ scanner.line = 3

\* C15: every token carries the line of its first character, whatever its
\* kind: a string literal spanning several lines and the error token of an
\* unterminated string spanning several lines too.
C15_LineOfFirstCharacter ==
    \A i \in 1..Len(tokens) :
        tokens[i].line = 1 + Newlines(scanner.source, tokens[i].start)

\* the token kinds of the keywords
KeywordKinds ==
    {"And", "Class", "Else", "False", "For", "Fun", "If", "Nil", "Or", "Print",
     "Return", "Super", "This", "True", "Var", "While"}

IsIdentifierByte(b) == is_ascii_alphanumeric(b) \/ b = "_"

\* C16: a token that starts with a letter or '_' covers the maximal run of
\* alphanumeric and '_' bytes; it is the keyword token whose spelling is the
\* whole lexeme when there is one, and otherwise an Identifier whose text is
\* the lexeme: "andy", "formless", "fo", "_" and "_123" are identifiers.
C16_Identifiers ==
    /\ Cardinality(KeywordKinds) = 16
    /\ \A i \in 1..Len(tokens) :
          is_alpha(peek(scanner.source, tokens[i].start))
             => /\ \A k \in 1..Len(Lexeme(i)) : IsIdentifierByte(Lexeme(i)[k])
                /\ ~IsIdentifierByte(peek(scanner.source, tokens[i].current))
                /\ IF \E kw \in KeywordKinds : lexeme(Token(kw, <<>>, 0)) = Lexeme(i)
                   THEN /\ tokens[i].kind \in KeywordKinds
                        /\ lexeme(Token(tokens[i].kind, <<>>, 0)) = Lexeme(i)
                   ELSE tokens[i].kind = "Identifier" /\ Text(i) = Lexeme(i)
    /\ \A i \in 1..Len(tokens) :
          tokens[i].kind \in KeywordKinds \cup {"Identifier"}
             => is_alpha(peek(scanner.source, tokens[i].start))
    /\ (Len(tokens) >= 5 /\ Len(scanner.source) > 20
           /\ SubSeq(scanner.source, 1, 4) = <<"a", "n", "d", "y">>)
          => /\ \A i \in 1..5 : tokens[i].kind = "Identifier"
             /\ Text(1) = <<"a", "n", "d", "y">>
             /\ Text(2) = <<"f", "o", "r", "m", "l", "e", "s", "s">>
             /\ Text(3) = <<"f", "o">>
             /\ Text(4) = <<"_">>
             /\ Text(5) = <<"_", "1", "2", "3">>

\* "and or for andy" has been scanned: three keywords and an identifier
C16_Witness ==
    /\ Len(tokens) = 4
    /\ tokens[1].kind = "And"
    /\ tokens[2].kind = "Or"
    /\ tokens[3].kind = "For"
    /\ tokens[4].kind = "Identifier"
    /\ Text(4) = <<"a", "n", "d", "y">>

\* C17: a Number token covers a maximal run of digits and, only when a '.'
\* followed by a digit comes next, that '.' and the maximal run of digits
\* after it; its text is the bytes consumed.  "123.456" is one Number,
\* "123." is Number 123 then Dot, ".456" is Dot then Number 456.
C17_Numbers ==
    /\ \A i \in 1..Len(tokens) :
          is_ascii_digit(peek(scanner.source, tokens[i].start))
             => LET lex  == Lexeme(i)
                    dots == {k \in 1..Len(lex) : lex[k] = "."}
                    next == peek(scanner.source, tokens[i].current)
                    after == peek_next(scanner.source, tokens[i].current)
                IN  /\ tokens[i].kind = "Number"
                    /\ Text(i) = lex
                    /\ \A k \in 1..Len(lex) : is_ascii_digit(lex[k]) \/ lex[k] = "."
                    /\ Cardinality(dots) <= 1
                    /\ \A k \in dots : k < Len(lex) /\ is_ascii_digit(lex[k + 1])
                    /\ ~is_ascii_digit(next)
                    /\ (next = "." /\ dots = {}) => ~is_ascii_digit(after)
    /\ \A i \in 1..Len(tokens) :
          tokens[i].kind = "Number"
             => is_ascii_digit(peek(scanner.source, tokens[i].start))
    /\ (scanner.source = <<"1", "2", "3", ".", "4", "5", "6">> /\ Len(tokens) >= 2)
          => /\ tokens[1].kind = "Number" /\ Text(1) = scanner.source
             /\ tokens[2].kind = "Eof"
    /\ (scanner.source = <<"1", "2", "3", ".">> /\ Len(tokens) >= 3)
          => /\ tokens[1].kind = "Number" /\ Text(1) = <<"1", "2", "3">>
             /\ tokens[2].kind = "Dot"
             /\ tokens[3].kind = "Eof"
    /\ (scanner.source = <<".", "4", "5", "6">> /\ Len(tokens) >= 3)
          => /\ tokens[1].kind = "Dot"
             /\ tokens[2].kind = "Number" /\ Text(2) = <<"4", "5", "6">>
             /\ tokens[3].kind = "Eof"

\* "1.2.3" has been scanned: Number 1.2, Dot, Number 3
C17_Witness ==
    /\ scanner.source = <<"1", ".", "2", ".", "3">>
    /\ Len(tokens) = 3
    /\ tokens[1].kind = "Number" /\ Text(1) = <<"1", ".", "2">>
    /\ tokens[2].kind = "Dot"
    /\ tokens[3].kind = "Number" /\ Text(3) = <<"3">>

\* what the n-th call of scan_token returns on a scanner at current and line
RECURSIVE NthScan(_, _, _, _)
NthScan(source, current, line, n) ==
    LET r == scan_token(source, current, line)
    IN  IF n = 1 THEN r ELSE NthScan(source, r.current, r.line, n - 1)

\* the j-th token returned is what the n-th call returns on a new scanner
\* over the bytes from offset on, its line counter set to line
SameAsRescan(j, offset, line, n) ==
    LET rest == SubSeq(scanner.source, offset + 1, Len(scanner.source))
        r    == NthScan(rest, 0, line, n)
    IN  /\ tokens[j].kind = r.token.kind
        /\ tokens[j].line = r.token.line
        /\ tokens[j].start = offset + r.start
        /\ tokens[j].current = offset + r.current
        /\ tokens[j].kind \in {"Number", "String", "Identifier"}
              => Text(j) = r.token.text
        /\ tokens[j].kind = "Error" => tokens[j].message = r.token.text

\* C18: an error does not poison the scanner.  When scan_token signals an
\* unexpected character it has consumed that one byte, and the calls after
\* it return the tokens (kinds, lexemes, lines) that scanning the rest of
\* the source from there returns.
C18_NotPoisoned ==
    \A i \in 1..Len(tokens) :
        (tokens[i].kind = "Error" /\ tokens[i].message = <<"Unexpected character.">>)
           => /\ tokens[i].current = tokens[i].start + 1
              /\ \A j \in (i + 1)..Len(tokens) :
                    SameAsRescan(j, tokens[i].current, tokens[i].line, j - i)

\* "1@or #(x)!=<2": after the error at '@' came a keyword, another error, and
\* seven tokens more up to Eof
C18_Witness ==
    /\ Len(tokens) = 11
    /\ tokens[2].kind = "Error"
    /\ tokens[3].kind = "Or"
    /\ tokens[4].kind = "Error"
    /\ tokens[8].kind = "BangEqual"
    /\ tokens[10].kind = "Number"
    /\ tokens[11].kind = "Eof"

(***************************************************************************)
(* Properties of the opcode conversions.                                   *)
(***************************************************************************)
\* C19: the opcode encoding round-trips through a total decode.  The seven
\* opcodes encode to the distinct bytes 0..6, decoding the byte of an opcode
\* gives that opcode back, and a byte of 0..255 decodes to Ok exactly when
\* it is at most 6.
C19_RoundTrip ==
    /\ \A o1, o2 \in OpCodes : u8_from(o1) = u8_from(o2) => o1 = o2
    /\ (codec.op # "none" /\ codec.byte # 0 - 1) => codec.byte \in 0..6
    /\ (codec.op # "none" /\ codec.back # "none") => codec.back = codec.op
    /\ codec.back # "none"
          => /\ codec.back \in OpCodes \cup {"Err"}
             /\ codec.back # "Err" <=> codec.byte <= 6
             /\ codec.back # "Err" => u8_from(codec.back) = codec.byte

\* Return was encoded as 6 and decoded as Return
C19_Witness ==
    codec = [op |-> "Return", byte |-> 6, back |-> "Return"]

(***************************************************************************)
(* Properties of the disassembler.                                         *)
(***************************************************************************)
\* the offsets of the rows of the disassembly
ListedOffsets == [i \in 1..Len(listing.rows) |-> listing.rows[i].offset]

\* C20: the disassembler reads the instruction boundaries the compiler
\* emitted and the VM executes.  For the chunk of every successful compile
\* the offsets disassemble visits from 0 (two bytes on for Constant, one
\* otherwise) are the offsets at which run fetches an opcode, and the walk
\* ends at code.len().
C20_SameBoundaries ==
    cres = "Ok"
       => /\ listing.header = <<"code">>
          /\ listing.end = Len(chunk.code)
          /\ ListedOffsets = Boundaries(chunk, 0)
          /\ \A i \in 1..Len(listing.rows) :
                listing.rows[i].name # "Unknown opcode"
          /\ Len(fetched) <= Len(ListedOffsets)
          /\ fetched = SubSeq(ListedOffsets, 1, Len(fetched))
          /\ pc = "ready" => fetched = ListedOffsets

\* the sequence grew by exactly one element at its end
Appended(before, after) ==
    /\ Len(after) = Len(before) + 1
    /\ SubSeq(after, 1, Len(before)) = before

\* C21: a Chunk only grows by appending.  write(byte, line) appends exactly
\* the pair (byte, line) at the end of code and leaves the earlier pairs and
\* the constant pool as they were; add_constant(value) appends exactly value
\* to the pool, equal to an earlier constant or not, returns the length the
\* pool had before the call, and leaves code and the earlier constants as
\* they were.
C21_WriteFrame ==
    \A byte \in ChunkBytes, line \in ChunkLines :
        Write(byte, line) =>
            /\ Appended(chunk.code, chunk'.code)
            /\ chunk'.code[Len(chunk'.code)] = [byte |-> byte, line |-> line]
            /\ chunk'.constants = chunk.constants

C21_AddConstantFrame ==
    \A value \in ChunkValues :
        AddConstant(value) =>
            /\ Appended(chunk.constants, chunk'.constants)
            /\ chunk'.constants[Len(chunk'.constants)] = value
            /\ added' = Len(chunk.constants)
            /\ chunk'.code = chunk.code

C21_OnlyGrows ==
    /\ Len(chunk'.code) >= Len(chunk.code)
    /\ SubSeq(chunk'.code, 1, Len(chunk.code)) = chunk.code
    /\ Len(chunk'.constants) >= Len(chunk.constants)
    /\ SubSeq(chunk'.constants, 1, Len(chunk.constants)) = chunk.constants

C21_AppendOnly ==
    [][C21_WriteFrame /\ C21_AddConstantFrame /\ C21_OnlyGrows]_vars

\* two equal constants were added, each at an index of its own, to a chunk
\* that has code
C21_Witness ==
    /\ chunk.constants = <<Fin(FALSE, 1, 1), Fin(FALSE, 2, 1), Fin(FALSE, 1, 1)>>
    /\ added = 2
    /\ Len(chunk.code) = 2
    /\ chunk.code[1] # chunk.code[2]

\* C22: panic mode suppresses cascades.  A compile reports at most one
\* diagnostic, the parser is in panic mode exactly when it has reported one,
\* and from then on no step of that compile clears panic mode or prints
\* anything, while the compile goes on parsing and emitting.
C22_AtMostOne ==
    /\ Len(stderr) <= 1
    /\ parser.panic_mode <=> Len(stderr) = 1
    /\ parser.panic_mode <=> parser.had_error

C22_Suppressed ==
    (parser.panic_mode /\ calls' = calls) =>
        /\ parser'.panic_mode
        /\ stderr' = stderr

C22_PanicMode == [](C22_AtMostOne) /\ [][C22_Suppressed]_vars

\* 258 literals: make_constant called error for the 257th and for the 258th,
\* one diagnostic was printed, and every literal and operator was emitted
C22_Witness ==
    /\ Len(scanner.source) = 2 * (U8_MAX + 3) - 1
    /\ cres = "Unknown"
    /\ Len(chunk.constants) = U8_MAX + 3
    /\ Len(chunk.code) = 3 * (U8_MAX + 3)
    /\ Len(stderr) = 1
    /\ stderr[1].message = "Too many constants in this chunk."

BinaryOperators == {"Plus", "Minus", "Star", "Slash"}

\* the compiler is at the while condition of parse_precedence and the current
\* token was scanned without an error
AtLoop == pc = "compiling" /\ Top.fn = "loop" /\ ~is_err(parser.current)

\* C23: only + - * / enter the binary loop of parse_precedence.  No call of
\* parse_precedence has the minimum precedence None; a token that is not one
\* of the four operators has precedence None, so the loop ends on it and
\* leaves it as the current token; the arm of the loop that returns
\* CompileError::Unknown is never taken, so compile returns Unknown only
\* after an error was reported.
C23_NeverNone ==
    pc = "compiling" =>
        \A i \in 1..Len(frames) :
            frames[i].fn \in {"parse_precedence", "loop"} => frames[i].prec > Prec_None

C23_EntersOnOperator ==
    AtLoop =>
        /\ parser.current.kind \notin BinaryOperators
              => get_precedence(parser.current.kind) = Prec_None
        /\ Top.prec <= get_precedence(parser.current.kind)
              => parser.current.kind \in BinaryOperators

C23_NoFallback == cres = "Unknown" => parser.had_error

C23_EndsUnconsumed ==
    (AtLoop /\ parser.current.kind \notin BinaryOperators) =>
        /\ parser' = parser
        /\ scanner' = scanner
        /\ chunk' = chunk
        /\ frames' = Rest
        /\ pc' = "compiling"

C23_OperatorsOnly ==
    /\ [](C23_NeverNone /\ C23_EntersOnOperator /\ C23_NoFallback)
    /\ [][C23_EndsUnconsumed]_vars

\* "1 2": the loop ended on the literal 2 and left it as the current token,
\* where consume then reported it
C23_Witness ==
    /\ scanner.source = <<"1", " ", "2">>
    /\ cres = "Unknown"
    /\ parser.previous.kind = "Number" /\ parser.previous.text = <<"1">>
    /\ parser.current.kind = "Number" /\ parser.current.text = <<"2">>
    /\ Len(stderr) = 1
    /\ stderr[1].message = "Expect end of expression."

IsNegated(s) ==
    /\ Len(s) = 4
    /\ s[1] = "-" /\ s[2] \in Literals /\ s[3] \in Operators /\ s[4] \in Literals

IsDoubleNegated(s) == Len(s) = 3 /\ s[1] = "-" /\ s[2] = "-" /\ is_ascii_digit(s[3])

\* C24: a leading '-' binds tighter than every binary operator.  The operand
\* of unary is parsed at Unary precedence and Negate is emitted right after
\* it: "-a op b" is emitted as a Negate b op and evaluates to (-a) op b, for
\* each of + - * /, and "--a" is emitted as a Negate Negate and evaluates
\* to a.
C24_OperandAtUnary ==
    pc = "compiling" =>
        \A i \in 1..(Len(frames) - 1) :
            frames[i].fn = "unary"
                => frames[i + 1].fn \in {"parse_precedence", "loop"}
                   /\ frames[i + 1].prec = Prec_Unary

C24_UnaryBindsTighter ==
    LET s == scanner.source
    IN  /\ C24_OperandAtUnary
        /\ IsNegated(s)
              => /\ cres = "Ok"
                    => /\ Bytes(chunk) = <<Op_Constant, 0, Op_Negate, Op_Constant, 1,
                                           OpcodeOf(s[3]), Op_Return>>
                       /\ chunk.constants = <<Val(s[2]), Val(s[4])>>
                 /\ Evaluates(Direct(s[3], f64_neg(Val(s[2])), Val(s[4])))
        /\ IsDoubleNegated(s)
              => /\ cres = "Ok"
                    => Bytes(chunk) = <<Op_Constant, 0, Op_Negate, Op_Negate, Op_Return>>
                 /\ Evaluates(Val(s[3]))

\* "-1*2" was emitted as 1 Negate 2 Multiply and has printed -2
C24_Witness ==
    /\ scanner.source = <<"-", "1", "*", "2">>
    /\ Bytes(chunk) = <<Op_Constant, 0, Op_Negate, Op_Constant, 1, Op_Multiply, Op_Return>>
    /\ FromReady
    /\ result = "Ok"
    /\ stdout = <<Fin(TRUE, 2, 1)>>

LinesOf(c) == [i \in 1..Len(c.code) |-> c.code[i].line]

\* the bytes a step of the compiler appended to the chunk
Emitted == (Len(chunk.code) + 1)..Len(chunk'.code)

\* C25: every byte the compiler emits is tagged with the line of the
\* parser's previous token at the moment of emission.  A Constant opcode and
\* its operand carry the line of the literal, a binary or Negate opcode the
\* line of the last token of its (right) operand, and the Return of a
\* compile that succeeds the line of the Eof token.
C25_PreviousLine ==
    (pc = "compiling" /\ calls' = calls) =>
        /\ \A i \in Emitted : chunk'.code[i].line = parser'.previous.line
        /\ (Emitted # {} /\ Top.fn = "parse_precedence")
              => /\ parser'.previous.kind = "Number"
                 /\ Len(chunk'.code) = Len(chunk.code) + 2
                 /\ chunk'.code[Len(chunk.code) + 1].byte = Op_Constant
        /\ (Emitted # {} /\ Top.fn \in {"unary", "binary"})
              => /\ parser' = parser
                 /\ parser.previous.kind \in {"Number", "RightParen"}
        /\ cres' = "Ok"
              => /\ parser'.previous.kind = "Eof"
                 /\ chunk'.code[Len(chunk'.code)] =
                       [byte |-> Op_Return, line |-> parser'.previous.line]

C25_Examples ==
    LET s == scanner.source
    IN  cres = "Ok" =>
          /\ s = Chars(<<<<"1">>, <<"+">>, <<"2">>, <<>>>>)
                => LinesOf(chunk) = <<1, 1, 3, 3, 3, 4>>
          /\ s = Chars(<<<<"-">>, <<"1">>>>)
                => LinesOf(chunk) = <<2, 2, 2, 2>>
          /\ s = Chars(<<<<"1", "+", "(">>, <<"2">>, <<")">>, <<>>>>)
                => LinesOf(chunk) = <<1, 1, 2, 2, 3, 4>>
          /\ s = Chars(<<<<"-", "(", "1">>, <<")">>>>)
                => LinesOf(chunk) = <<1, 1, 2, 2>>
          /\ s = Chars(<<<<"(", "1">>, <<")">>, <<"*", "2">>>>)
                => LinesOf(chunk) = <<1, 1, 3, 3, 3, 3>>

C25_LineTags == [](C25_Examples) /\ [][C25_PreviousLine]_vars

\* 1 + ( 2 ) over four lines: the literals are tagged 1 and 2, Add is tagged
\* with the line of ')' and Return with the line of Eof
C25_Witness ==
    /\ scanner.source = Chars(<<<<"1", "+", "(">>, <<"2">>, <<")">>, <<>>>>)
    /\ cres = "Ok"
    /\ Bytes(chunk) = <<Op_Constant, 0, Op_Constant, 1, Op_Add, Op_Return>>
    /\ LinesOf(chunk) = <<1, 1, 2, 2, 3, 4>>
    /\ parser.previous = Token("Eof", <<>>, 4)

\* the offset of the instruction before the one at offset, which is an
\* instruction boundary other than 0
PreviousInstruction(c, offset) ==
    LET bs == Boundaries(c, 0)
    IN  bs[(CHOOSE i \in 2..Len(bs) : bs[i] = offset) - 1]

IsBoundary(c, offset) ==
    LET bs == Boundaries(c, 0) IN \E i \in 1..Len(bs) : bs[i] = offset

\* C26: disassemble_instruction prints the '|' marker in place of the line
\* number exactly when the line of the instruction equals the line of the
\* previous instruction, and the line of the instruction otherwise, for
\* every chunk built with write, whatever lines its operand bytes carry.
C26_LineSuppression ==
    \A k \in 1..Len(listing.rows) :
        LET row    == listing.rows[k]
            marker == row.line = 0 - 1
            line   == chunk.code[row.offset + 1].line
        IN  IsBoundary(chunk, row.offset) =>
              /\ marker <=>
                    /\ row.offset > 0
                    /\ line = chunk.code[PreviousInstruction(chunk, row.offset) + 1].line
              /\ ~marker => row.line = line

\* the number of Constant instructions of a chunk
ConstantInstructions(c) ==
    LET bs == Boundaries(c, 0)
    IN  Cardinality({i \in 1..Len(bs) : c.code[bs[i] + 1].byte = Op_Constant})

\* C27: running the chunk of a successful compile never overflows the
\* operand stack.  Such a chunk has at most 256 = STACK_MAX Constant
\* instructions, one per constant of its pool, the stack is never deeper
\* than that number, and push never panics with "Stack overflow".
C27_NoOverflow ==
    cres = "Ok" =>
        LET n == ConstantInstructions(chunk)
        IN  /\ n = Len(chunk.constants)
            /\ n <= STACK_MAX
            /\ Len(stack) <= n
            /\ Len(stack) <= STACK_MAX
            /\ panic # "Stack overflow"

\* the nested sum of 256 literals: run has pushed all of them
C27_Witness ==
    /\ scanner.source = Nest(STACK_MAX)
    /\ RunsCompiled
    /\ pc = "running"
    /\ Len(chunk.constants) = STACK_MAX
    /\ Len(stack) = STACK_MAX
    /\ panic = ""

\* C28: in every chunk the compiler builds, finished or not, the line tags
\* are non-decreasing in offset order: the line of each byte is at most the
\* line of the byte after it.
C28_LinesNonDecreasing ==
    \A i \in 1..(Len(chunk.code) - 1) : chunk.code[i].line <= chunk.code[i + 1].line

\* ( 1 ) * 2 over three lines: the tags rise from line 1 to line 3
C28_Witness ==
    /\ scanner.source = Chars(<<<<"(", "1">>, <<")">>, <<"*", "2">>>>)
    /\ cres = "Ok"
    /\ Bytes(chunk) = <<Op_Constant, 0, Op_Constant, 1, Op_Multiply, Op_Return>>
    /\ LinesOf(chunk) = <<1, 1, 3, 3, 3, 3>>

\* the calls of scan_token that called intern
Interned == {i \in 1..Len(tokens) : tokens[i].idx # 0 - 1}

\* the names interned by the calls before the i-th
SeenBefore(i) == {tokens[j].name : j \in {k \in Interned : k < i}}

\* C29: the interner is a bijection between interned strings and handles.
\* intern returns the same handle for the same string and distinct handles
\* for distinct strings, lookup of a handle gives back the string, a string
\* seen for the first time gets the number of distinct strings seen before
\* it (handles are dense from 0 in first-seen order), map and vec have the
\* same length, and map is the inverse of vec.
C29_InternerBijection ==
    /\ \A i \in Interned, j \in Interned :
           tokens[i].name = tokens[j].name <=> tokens[i].idx = tokens[j].idx
    /\ \A i \in Interned :
           /\ lookup(interner, tokens[i].idx) = tokens[i].name
           /\ tokens[i].name \notin SeenBefore(i)
                 => tokens[i].idx = Cardinality(SeenBefore(i))
    /\ Cardinality(interner.map) = Len(interner.vec)
    /\ Len(interner.vec) = Cardinality({tokens[i].name : i \in Interned})
    /\ \A e \in interner.map :
           e.idx \in 0..(Len(interner.vec) - 1) /\ interner.vec[e.idx + 1] = e.name
    /\ \A k \in 1..Len(interner.vec) :
           [name |-> interner.vec[k], idx |-> k - 1] \in interner.map

\* the source of the test it_works, scanned to its end: foo, 42, bar and 27
\* got the handles 0 to 3, and the later foo and bar their first handles
C29_Witness ==
    /\ Len(tokens) = 17
    /\ tokens[17].kind = "Eof"
    /\ interner.vec = <<<<"f", "o", "o">>, <<"4", "2">>, <<"b", "a", "r">>, <<"2", "7">>>>
    /\ Cardinality(interner.map) = 4
    /\ tokens[2].idx = 0 /\ tokens[11].idx = 0 /\ tokens[13].idx = 0
    /\ tokens[7].idx = 2 /\ tokens[15].idx = 2

\* C30: the parser's previous token is never a scan error.  A step that
\* changes previous moves the current token into it, and that token was
\* scanned without an error, so compile never returns CompileError::Scan,
\* the return of emit_byte and unary for a previous that is an error.
C30_PreviousOk == ~is_err(parser.previous) /\ cres # "Scan"

C30_MovesScanned ==
    (parser'.previous # parser.previous /\ calls' = calls) =>
        /\ parser'.previous = parser.current
        /\ ~is_err(parser.current)

C30_PreviousNeverError == [](C30_PreviousOk) /\ [][C30_MovesScanned]_vars

\* "1@": advance moved the literal into previous and scanned the error into
\* current; the Constant was emitted on the line of the literal
C30_Witness ==
    /\ scanner.source = <<"1", "@">>
    /\ pc = "compiling"
    /\ parser.previous.kind = "Number"
    /\ is_err(parser.current)
    /\ chunk.code = <<[byte |-> Op_Constant, line |-> 1], [byte |-> 0, line |-> 1]>>

=============================================================================
